---------------------------- MODULE Spec2Model ----------------------------
(***************************************************************************)
(* Model of the incremental ingestion pipeline of backend/main.py: the      *)
(* three category loops (world YouTube, Yemen YouTube, newspapers), their   *)
(* fetch adapters, the per-source watermark records, the item tables and    *)
(* the broadcast of new items.                                              *)
(*                                                                          *)
(* The three loops are asyncio coroutines of one event loop: a coroutine    *)
(* runs alone from one await to the next.  The variable turn names the      *)
(* coroutine that is running between two awaits ("none" while every         *)
(* coroutine is suspended).  The listings of the sources are the outside    *)
(* world and change at any time.                                            *)
(***************************************************************************)
EXTENDS Integers, Sequences, FiniteSets, TLC

(***************************************************************************)
(* Bounds of the exploration.                                               *)
(***************************************************************************)
\* Poll cycles of a loop that runs alone and meets no fault.
MaxCycles == 3
\* Poll cycles of a loop that runs alone and meets faults and clear-alls.
FaultyCycles == 2
\* Poll cycles of each loop when the three loops run together.
MixedCycles == 2
\* Batches the sources of a loop that runs alone publish during the run.
MaxPublishes == 3
\* Event-thread links the reasoning service asks for in a run with faults.
MaxLinks == 1
\* Faults met in a run with faults: a database call, an adapter or the
\* translation service failing.
MaxFaults == 1
\* Administrative clear-all requests served in a run with faults.
MaxClears == 1

(***************************************************************************)
(* Program constants.                                                       *)
(***************************************************************************)
\* final_ids = unique_ids[:5]
K == 5
\* if not last_video_ids_set and len(videos) >= 5: break
FirstRunCap == 5

Categories == {"world", "yemen", "newspaper"}

\* The source lists, in list order (the order of the gather results).
YOUTUBE_CHANNELS == <<"Reuters", "SkyPlaylist">>
YEMEN_YOUTUBE_CHANNELS == <<"AlHadath", "AlArabiya">>
NEWSPAPER_SOURCES == <<"CNN", "BBC">>

SourceList(c) ==
    CASE c = "world" -> YOUTUBE_CHANNELS
      [] c = "yemen" -> YEMEN_YOUTUBE_CHANNELS
      [] c = "newspaper" -> NEWSPAPER_SOURCES

Range(seq) == {seq[i] : i \in 1..Len(seq)}

Sources(c) == Range(SourceList(c))

\* channel.get('type') == 'playlist'
IsPlaylist(s) == s = "SkyPlaylist"

(***************************************************************************)
(* Titles are sequences of words.  Words written in Arabic script are the   *)
(* members of ArabicWords (transliterated here); the others are Latin.      *)
(***************************************************************************)
ArabicWords == {"alyaman", "sanaa", "aswaq", "ghaza", "muhadathat"}

\* YEMEN_KEYWORDS (a sample of the list; every keyword is Arabic script).
YEMEN_KEYWORDS == {"alyaman", "sanaa"}

\* str.lower(): changes Latin capitals only.
Lower(w) ==
    CASE w = "Yemen" -> "yemen"
      [] w = "Gaza" -> "gaza"
      [] w = "Markets" -> "markets"
      [] OTHER -> w

\* is_yemen_related(title): a keyword occurs in the title, as written or
\* lower-cased.
is_yemen_related(title) ==
    \E k \in YEMEN_KEYWORDS :
        \E i \in 1..Len(title) : title[i] = k \/ Lower(title[i]) = Lower(k)

\* The answer of the translation service for one word.
GoogleTranslate(w) ==
    CASE w = "Yemen" -> "alyaman"
      [] w = "yemen" -> "alyaman"
      [] w = "Gaza" -> "ghaza"
      [] w = "Markets" -> "aswaq"
      [] w = "talks" -> "muhadathat"
      [] OTHER -> w

HasArabic(text) == \E i \in 1..Len(text) : text[i] \in ArabicWords

\* translate_to_arabic(text): text that is empty or already has Arabic
\* characters is returned as it is; otherwise the service's answer, or the
\* text itself when the request fails (service_ok = FALSE).
translate_to_arabic(text, service_ok) ==
    IF text = <<>> \/ HasArabic(text) THEN text
    ELSE IF service_ok THEN [i \in 1..Len(text) |-> GoogleTranslate(text[i])]
    ELSE text

\* generate_article_id(url): the first 16 hex digits of the MD5 of the url.
generate_article_id(url) == <<"md5", url>>

\* url = f"https://www.youtube.com/watch?v={video_id}"
WatchUrl(video_id) == <<"watch", video_id>>

(***************************************************************************)
(* The outside world: what each source has published, oldest first.  An     *)
(* entry of a YouTube listing has an id (NoId: a None entry or one without  *)
(* id), a title and an upload date (NoDate: the flat extraction gave none). *)
(* An entry of a newspaper page is a link with its title; its id field is   *)
(* the url.                                                                 *)
(***************************************************************************)
NoId == 0
NoDate == 0
PrivateTitle == <<"[Private video]">>
DeletedTitle == <<"[Deleted video]">>

Entry(id, title, date) == [id |-> id, title |-> title, upload_date |-> date]

\* What a source publishes over time: batches of entries, oldest first.
Feed(c, s) ==
    CASE s = "Reuters" ->
           << << Entry(1, <<"Gaza", "talks">>, 1) >>,
              << Entry(2, <<"Markets">>, 1),
                 Entry(3, <<"Yemen", "talks">>, 2),
                 Entry(4, <<"Gaza">>, 2),
                 Entry(5, <<"Markets", "talks">>, 3),
                 Entry(6, <<"Yemen">>, 3),
                 Entry(7, <<"Gaza", "Markets">>, 4) >> >>
      [] s = "SkyPlaylist" ->
           << << Entry(2, <<"Markets">>, 1),
                 Entry(NoId, <<>>, NoDate),
                 Entry(8, PrivateTitle, 2) >> >>
      [] s = "AlHadath" ->
           << << Entry(11, <<"alyaman", "muhadathat">>, 1) >>,
              << Entry(12, <<"aswaq">>, 1),
                 Entry(13, <<"Yemen", "talks">>, 2) >> >>
      [] s = "AlArabiya" ->
           << << Entry(14, <<"aswaq">>, 1) >>,
              << Entry(15, <<"ghaza", "muhadathat">>, 2) >> >>
      [] s = "CNN" ->
           << << Entry(21, <<"Gaza", "talks">>, NoDate) >>,
              << Entry(22, <<"Markets">>, NoDate),
                 Entry(23, <<"Yemen">>, NoDate) >> >>
      [] s = "BBC" ->
           << << Entry(23, <<"Yemen">>, NoDate),
                 Entry(24, <<"Gaza">>, NoDate) >> >>

Reversed(seq) == [i \in 1..Len(seq) |-> seq[Len(seq) + 1 - i]]

\* The entries a source lists once it has published n batches, newest first.
RECURSIVE Listing(_, _, _)
Listing(c, s, n) ==
    IF n = 0 THEN <<>>
    ELSE Reversed(Feed(c, s)[n]) \o Listing(c, s, n - 1)

(***************************************************************************)
(* The fetch adapters.  env is what the outside world does during one call: *)
(*   outcome    "ok": the listing is extracted; "rss": the extraction       *)
(*              raises and the RSS feed answers; "error": the request       *)
(*              fails; "raised": the worker thread itself raises            *)
(*   time       "dated": the entries carry their upload date; "tick": they  *)
(*              carry none and every datetime.now() is later than the one   *)
(*              before; "flat": they carry none and the clock does not      *)
(*              advance during the call                                     *)
(*   service_ok the translation service answers                            *)
(*   t0         the clock when the call starts                              *)
(***************************************************************************)
Outcomes == {"ok", "rss", "error", "raised"}
TimeModes == {"dated", "tick", "flat"}

\* datetime.now() at the moment the adapter appends its next item.
NowAt(env, videos) == IF env.time = "tick" THEN env.t0 + Len(videos) ELSE env.t0

\* upload_date / timestamp of the entry, else datetime.now().
PublishedOf(env, entry, videos) ==
    IF env.time = "dated" /\ entry.upload_date # NoDate
    THEN entry.upload_date
    ELSE NowAt(env, videos)

Video(env, entry, channel_name, videos) ==
    [video_id |-> entry.id,
     title |-> translate_to_arabic(entry.title, env.service_ok),
     link |-> WatchUrl(entry.id),
     source |-> channel_name,
     published |-> PublishedOf(env, entry, videos)]

\* A scan that passes over a known entry and goes on with the next one.
RECURSIVE ScanPastKnown(_, _, _, _, _, _)
ScanPastKnown(env, entries, channel_name, last_video_ids_set, i, videos) ==
    IF i > Len(entries) THEN videos
    ELSE LET entry == entries[i] IN
         IF \/ entry.id = NoId
            \/ entry.id \in last_video_ids_set
            \/ entry.title \in {<<>>, PrivateTitle, DeletedTitle}
         THEN ScanPastKnown(env, entries, channel_name, last_video_ids_set, i + 1, videos)
         ELSE LET appended == Append(videos, Video(env, entry, channel_name, videos)) IN
              IF last_video_ids_set = {} /\ Len(appended) >= FirstRunCap
              THEN appended
              ELSE ScanPastKnown(env, entries, channel_name, last_video_ids_set, i + 1, appended)

\* for entry in entries_list: ... (the yt-dlp listing)
RECURSIVE ScanEntries(_, _, _, _, _, _)
ScanEntries(env, entries, channel_name, last_video_ids_set, i, videos) ==
    IF i > Len(entries) THEN videos
    ELSE LET entry == entries[i] IN
         IF entry.id = NoId
         THEN ScanEntries(env, entries, channel_name, last_video_ids_set, i + 1, videos)
         ELSE IF last_video_ids_set # {} /\ entry.id \in last_video_ids_set
         THEN videos
         ELSE IF entry.title = <<>> \/ entry.title = PrivateTitle \/ entry.title = DeletedTitle
         THEN ScanEntries(env, entries, channel_name, last_video_ids_set, i + 1, videos)
         ELSE LET appended == Append(videos, Video(env, entry, channel_name, videos)) IN
              IF last_video_ids_set = {} /\ Len(appended) >= FirstRunCap
              THEN appended
              ELSE ScanEntries(env, entries, channel_name, last_video_ids_set, i + 1, appended)

\* for entry in root.findall(...entry)[:50]: ... (the RSS fallback)
RECURSIVE ScanRss(_, _, _, _, _, _)
ScanRss(env, entries, channel_name, last_video_ids_set, i, videos) ==
    IF i > Len(entries) THEN videos
    ELSE LET entry == entries[i] IN
         IF entry.id = NoId
         THEN ScanRss(env, entries, channel_name, last_video_ids_set, i + 1, videos)
         ELSE IF last_video_ids_set # {} /\ entry.id \in last_video_ids_set
         THEN videos
         ELSE LET appended == Append(videos, Video(env, entry, channel_name, videos)) IN
              IF last_video_ids_set = {} /\ Len(appended) >= FirstRunCap
              THEN appended
              ELSE ScanRss(env, entries, channel_name, last_video_ids_set, i + 1, appended)

\* fetch_youtube_channel_videos(channel_url, channel_name, last_video_ids,
\* is_playlist); entries is what the channel lists when it is called.
fetch_youtube_channel_videos(env, entries, channel_name, last_video_ids, is_playlist) ==
    LET last_video_ids_set == Range(last_video_ids) IN
    CASE env.outcome = "ok" ->
           ScanEntries(env, entries, channel_name, last_video_ids_set, 1, <<>>)
      [] env.outcome = "rss" ->
           IF is_playlist THEN <<>>
           ELSE ScanRss(env, entries, channel_name, last_video_ids_set, 1, <<>>)
      [] OTHER -> <<>>

Article(env, article_data, source_name, articles) ==
    [video_id |-> generate_article_id(article_data.id),
     title |-> translate_to_arabic(article_data.title, env.service_ok),
     link |-> article_data.id,
     source |-> source_name,
     published |-> NowAt(env, articles)]

\* for article_data in article_links[:50]: ...
RECURSIVE ScanArticles(_, _, _, _, _, _)
ScanArticles(env, article_links, source_name, last_article_ids_set, i, articles) ==
    IF i > Len(article_links) THEN articles
    ELSE LET article_data == article_links[i]
             article_id == generate_article_id(article_data.id) IN
         IF last_article_ids_set # {} /\ article_id \in last_article_ids_set
         THEN articles
         ELSE IF article_data.title = <<>>
         THEN ScanArticles(env, article_links, source_name, last_article_ids_set, i + 1, articles)
         ELSE LET appended == Append(articles, Article(env, article_data, source_name, articles)) IN
              IF last_article_ids_set = {} /\ Len(appended) >= FirstRunCap
              THEN appended
              ELSE ScanArticles(env, article_links, source_name, last_article_ids_set, i + 1, appended)

\* fetch_newspaper_articles(source_url, source_name, last_article_ids);
\* article_links is what the page links when it is called.
fetch_newspaper_articles(env, article_links, source_name, last_article_ids) ==
    IF env.outcome = "ok"
    THEN ScanArticles(env, article_links, source_name, Range(last_article_ids), 1, <<>>)
    ELSE <<>>

(***************************************************************************)
(* list.sort(key=published, reverse=True): a stable sort, the items with    *)
(* equal publish time keep their order.                                     *)
(***************************************************************************)
InsertByPublished(sorted, v) ==
    LET k == Cardinality({j \in 1..Len(sorted) : sorted[j].published >= v.published}) IN
    SubSeq(sorted, 1, k) \o <<v>> \o SubSeq(sorted, k + 1, Len(sorted))

\* A batch that is left in the order in which the results were combined.
Unsorted(seq) == seq

RECURSIVE SortNewestFirst(_)
SortNewestFirst(seq) ==
    IF seq = <<>> THEN <<>>
    ELSE InsertByPublished(SortNewestFirst(SubSeq(seq, 1, Len(seq) - 1)), seq[Len(seq)])

(***************************************************************************)
(* The watermark records (ChannelLastVideo, YemenChannelLastVideo,          *)
(* NewspaperLastArticle).  The id list is stored as JSON text in a string   *)
(* column: a text is the dump of a list, text that does not parse, or the   *)
(* JSON text of a value that is no list (here: of a string).                *)
(***************************************************************************)
json_dumps(ids) == [valid |-> TRUE, is_list |-> TRUE, list |-> ids]
CorruptText == [valid |-> FALSE, is_list |-> FALSE, list |-> <<>>]
StringText == [valid |-> TRUE, is_list |-> FALSE, list |-> <<>>]

\* set(last_video_ids) of a string: its characters, none of them an id of
\* the source (a video id, or the MD5 digest of an article link).
CharsOfText(channel_name) ==
    IF channel_name \in Range(NEWSPAPER_SOURCES)
    THEN <<generate_article_id(-1)>>
    ELSE <<-1>>

\* try: json.loads(record.last_video_ids)  except: None
\* (None and the empty list are the same to every reader: both are falsy.)
\* The value that json.loads returns for the text of a string is passed on
\* as it is; the adapter makes a set of it.
LoadIds(table, channel_name) ==
    IF channel_name \in DOMAIN table /\ table[channel_name].last_video_ids.valid
    THEN IF table[channel_name].last_video_ids.is_list
         THEN table[channel_name].last_video_ids.list
         ELSE CharsOfText(channel_name)
    ELSE <<>>

\* "Remove duplicates while preserving order"
RECURSIVE UniqueIds(_)
UniqueIds(combined_ids) ==
    IF combined_ids = <<>> THEN <<>>
    ELSE LET front == UniqueIds(SubSeq(combined_ids, 1, Len(combined_ids) - 1))
             last == combined_ids[Len(combined_ids)] IN
         IF last \in Range(front) THEN front ELSE Append(front, last)

Take(seq, n) == SubSeq(seq, 1, IF Len(seq) < n THEN Len(seq) ELSE n)

\* new_video_ids = [v['video_id'] for v in reversed(channel_videos)]
NewVideoIds(channel_videos) ==
    Reversed([i \in 1..Len(channel_videos) |-> channel_videos[i].video_id])

\* An id list that is never cut.
FinalIdsUncut(channel_videos, existing_ids) ==
    UniqueIds(NewVideoIds(channel_videos) \o existing_ids)

\* final_ids = unique(new_video_ids + existing_ids)[:5]
FinalIds(channel_videos, existing_ids) ==
    Take(UniqueIds(NewVideoIds(channel_videos) \o existing_ids), K)

\* most_recent_video = channel_videos[-1]
MostRecentVideo(channel_videos) == channel_videos[Len(channel_videos)]

\* The record written for one channel after a poll.
NewRecord(table, channel_name, channel_videos) ==
    [last_video_ids |-> json_dumps(FinalIds(channel_videos, LoadIds(table, channel_name))),
     last_video_published |-> MostRecentVideo(channel_videos).published]

\* A write without the filter on the channel name: every record of the
\* table gets the new values.
UpsertUnfiltered(table, channel_name, record) ==
    [n \in DOMAIN table \cup {channel_name} |-> record]

Upsert(table, channel_name, record) ==
    [n \in DOMAIN table \cup {channel_name} |->
        IF n = channel_name THEN record ELSE table[n]]

\* videos_by_channel[channel_name]: the videos of the batch from one channel,
\* in batch order.
VideosOfChannel(videos, channel_name) ==
    SelectSeq(videos, LAMBDA v : v.source = channel_name)

\* The keys of videos_by_channel in insertion order: the channels in the
\* order of their first video in the batch.
RECURSIVE ChannelsInBatchOrder(_)
ChannelsInBatchOrder(videos) ==
    IF videos = <<>> THEN <<>>
    ELSE LET front == ChannelsInBatchOrder(SubSeq(videos, 1, Len(videos) - 1))
             s == videos[Len(videos)].source IN
         IF s \in Range(front) THEN front ELSE Append(front, s)

\* The channels whose record the update loop writes, in loop order: the
\* world and newspaper loops walk videos_by_channel.items(), the Yemen loop
\* walks YEMEN_YOUTUBE_CHANNELS and skips the channels without videos.
UpdateOrder(c, videos) ==
    IF c = "yemen"
    THEN SelectSeq(SourceList(c), LAMBDA s : VideosOfChannel(videos, s) # <<>>)
    ELSE ChannelsInBatchOrder(videos)

\* "combined_ids = new_video_ids + existing_ids" raises a TypeError when
\* json.loads gave a string for existing_ids: the positions of the update
\* loop at which that happens.
Unmergeable(table, order) ==
    {n \in 1..Len(order) :
        /\ order[n] \in DOMAIN table
        /\ table[order[n]].last_video_ids.valid
        /\ ~table[order[n]].last_video_ids.is_list}

\* How many channels of the update loop are committed when nothing else
\* fails: all of them, or those before the first unmergeable record.
Committable(table, order) ==
    IF Unmergeable(table, order) = {} THEN Len(order)
    ELSE (CHOOSE n \in Unmergeable(table, order) :
              \A m \in Unmergeable(table, order) : n <= m) - 1

\* The table after the first n channels of the update loop were committed.
RECURSIVE UpdatedTable(_, _, _, _)
UpdatedTable(table, videos, order, n) ==
    IF n = 0 THEN table
    ELSE LET before == UpdatedTable(table, videos, order, n - 1) IN
         Upsert(before, order[n],
                NewRecord(before, order[n], VideosOfChannel(videos, order[n])))

(***************************************************************************)
(* The item tables (news, yemen_news, newspaper_news).                      *)
(***************************************************************************)
\* INTEGER PRIMARY KEY of SQLite: one more than the largest id in the table.
NextRowId(rows) ==
    IF rows = <<>> THEN 1
    ELSE 1 + CHOOSE m \in {rows[i].id : i \in 1..Len(rows)} :
                 \A i \in 1..Len(rows) : rows[i].id <= m

\* A check that looks at the last stored row only.
ExistsLast(rows, link) == rows # <<>> /\ rows[Len(rows)].link = link

\* db.query(Item).filter(Item.link == video['link']).first()
Exists(rows, link) == \E i \in 1..Len(rows) : rows[i].link = link

\* NewsItem(title=..., link=..., published=..., source=..., video_id=...)
\* with the id and the created_at that the table gives the row.
NewItemAt(rows, video, created_at) ==
    [id |-> NextRowId(rows),
     title |-> video.title,
     link |-> video.link,
     published |-> video.published,
     source |-> video.source,
     video_id |-> video.video_id,
     created_at |-> created_at]

\* {"type": "new_news" | "new_yemen_news" | "new_newspaper_news", "data": item}
EventType(c) ==
    CASE c = "world" -> "new_news"
      [] c = "yemen" -> "new_yemen_news"
      [] c = "newspaper" -> "new_newspaper_news"

(***************************************************************************)
(* State.                                                                   *)
(***************************************************************************)
VARIABLES
    published,        \* [category][source]: how many batches the source has published
    now,              \* the clock (datetime.now())
    time_mode,        \* how the listings report dates and the clock advances
    store,            \* [category]: the rows of the item table, in insertion order
    wm,               \* [category]: the watermark table, source name -> record
    threads,          \* the rows of event_threads
    first_run,        \* [category]: the loop's first_run flag
    pc,               \* [category]: where the loop is
    turn,             \* the coroutine running between two awaits, or "none"
    last_ids,         \* [category][source]: the id list loaded for this cycle
    results,          \* [category][source]: what the last gather returned for the source
    videos,           \* [category]: the combined, sorted batch of this cycle
    idx,              \* [category]: position of the loop in its batch
    new_items_found,  \* [category]: the items persisted in this cycle
    offered,          \* [category]: the items offered to the reasoning service
    sent,             \* [category]: the events broadcast by the loop, in order
    budget,           \* [category]: poll cycles the loop may still start
    faults,           \* faults the run may still meet
    links,            \* answers with links the reasoning service may still give
    pubs,             \* batches the sources may still publish
    clears,           \* clear-all requests the run may still serve
    errors,           \* what the except clauses have logged, in order: <<who, what>>
    active_connections, \* manager.active_connections
    received,         \* [listener]: the messages sent to its socket, in order
    response,         \* what the last call of a read handler returned
    handler,          \* [listener]: where its websocket_endpoint coroutine is
    sending           \* the call of manager.broadcast that is under way

vars == <<published, now, time_mode, store, wm, threads, first_run, pc, turn,
          last_ids, results, videos, idx, new_items_found, offered, sent,
          budget, faults, links, pubs, clears, errors, active_connections,
          received, response, handler, sending>>

\* created_at = Column(DateTime, default=datetime.now): the clock when the
\* row is added.
NewItem(rows, video) == NewItemAt(rows, video, now)

\* The listeners connected to /ws.
Listeners == <<"ws1", "ws2", "ws3">>

\* The cycles and the publications of the run of the Yemen loop beside the
\* world loop.
SeedCycles == 1
PairCycles == 2
PairPublishes == 1

\* The cycles of the world loop in the run with links beside one cycle of
\* the Yemen loop.
CrossCycles == 2

\* The clock at start: later than every upload date of the feeds.
T0 == 5

\* The runs explored: one loop alone for MaxCycles cycles without faults,
\* one loop alone for FaultyCycles cycles with faults, links and clear-alls,
\* the three loops together for MixedCycles cycles each, every source
\* listing its first batch from the start, the Yemen loop for PairCycles
\* cycles beside SeedCycles cycles of the world loop, and the world loop for
\* CrossCycles cycles with links beside SeedCycles cycles of the Yemen loop.
Profiles ==
    {[cycles |-> [c \in Categories |-> IF c = solo THEN MaxCycles ELSE 0],
      faults |-> 0, links |-> 0, clears |-> 0, start |-> 0, pubs |-> MaxPublishes]
        : solo \in Categories}
    \cup {[cycles |-> [c \in Categories |-> IF c = solo THEN FaultyCycles ELSE 0],
           faults |-> MaxFaults, links |-> MaxLinks, clears |-> MaxClears,
           start |-> 0, pubs |-> MaxPublishes]
             : solo \in Categories}
    \cup {[cycles |-> [c \in Categories |-> MixedCycles],
           faults |-> 0, links |-> 0, clears |-> 0, start |-> 1, pubs |-> 0]}
    \cup {[cycles |-> [c \in Categories |->
                         CASE c = "world" -> SeedCycles
                           [] c = "yemen" -> PairCycles
                           [] OTHER -> 0],
           faults |-> 0, links |-> 0, clears |-> 0, start |-> 1, pubs |-> PairPublishes]}
    \cup {[cycles |-> [c \in Categories |->
                         CASE c = "world" -> CrossCycles
                           [] c = "yemen" -> SeedCycles
                           [] OTHER -> 0],
           faults |-> 0, links |-> MaxLinks, clears |-> 0, start |-> 1,
           pubs |-> PairPublishes]}

NoResult == [exception |-> FALSE, videos |-> <<>>]

\* No read handler has been called.
NoResponse == [handler |-> "none"]

\* No call of manager.broadcast is under way.  A call is the message, the
\* position i of the iterator of "for connection in self.active_connections"
\* (the number of list positions it has passed) and the connection whose
\* send_text is awaited; start is the list when the call began, steady the
\* connections that have been in the list ever since, failed those whose
\* send_text raised.
NoSend == [busy |-> FALSE, message |-> <<>>, i |-> 0, to |-> "none",
           start |-> <<>>, steady |-> {}, failed |-> {}]

Init ==
    /\ now = T0
    /\ time_mode \in TimeModes
    /\ store = [c \in Categories |-> <<>>]
    /\ wm = [c \in Categories |-> <<>>]
    /\ threads = {}
    /\ first_run = [c \in Categories |-> TRUE]
    /\ pc = [c \in Categories |-> "sleep"]
    /\ turn = "none"
    /\ last_ids = [c \in Categories |-> [s \in Sources(c) |-> <<>>]]
    /\ results = [c \in Categories |-> [s \in Sources(c) |-> NoResult]]
    /\ videos = [c \in Categories |-> <<>>]
    /\ idx = [c \in Categories |-> 1]
    /\ new_items_found = [c \in Categories |-> <<>>]
    /\ offered = [c \in Categories |-> {}]
    /\ sent = [c \in Categories |-> <<>>]
    /\ errors = <<>>
    /\ active_connections = Listeners
    /\ received = [l \in Range(Listeners) |-> <<>>]
    /\ response = NoResponse
    /\ handler = [l \in Range(Listeners) |-> "open"]
    /\ sending = NoSend
    /\ \E p \in Profiles :
         /\ published = [c \in Categories |-> [s \in Sources(c) |-> p.start]]
         /\ budget = p.cycles
         /\ faults = p.faults
         /\ links = p.links
         /\ pubs = p.pubs
         /\ clears = p.clears

(***************************************************************************)
(* The outside world: a source publishes its next batch of entries.  The    *)
(* listing is read by the adapter calls of the gather only, so entries      *)
(* published while a cycle is under way are first seen by the next cycle:   *)
(* they are taken to appear while the loop sleeps.                          *)
(***************************************************************************)
Publish(c, s) ==
    /\ pc[c] = "sleep"
    /\ turn = "none"
    /\ budget[c] > 0
    /\ pubs > 0
    /\ published[c][s] < Len(Feed(c, s))
    /\ published' = [published EXCEPT ![c][s] = @ + 1]
    /\ pubs' = pubs - 1
    /\ UNCHANGED <<now, time_mode, store, wm, threads, first_run, pc, turn,
                   last_ids, results, videos, idx, new_items_found, offered,
                   sent, budget, faults, clears, links,
                   errors, active_connections, received, response,
                   handler, sending>>

(***************************************************************************)
(* fetch_all_youtube_channels / fetch_all_yemen_youtube_channels /          *)
(* fetch_all_newspaper_sources.                                             *)
(***************************************************************************)
\* What may happen to one adapter call.
OutcomesOf(c) == IF c = "newspaper" THEN Outcomes \ {"rss"} ELSE Outcomes

Env(outcome, service_ok) ==
    [outcome |-> outcome, time |-> time_mode, service_ok |-> service_ok, t0 |-> now]

\* One task of the gather: asyncio.to_thread(fetch_..., url, name, last_ids).
TaskResult(c, s, env, ids) ==
    IF env.outcome = "raised" THEN [exception |-> TRUE, videos |-> <<>>]
    ELSE [exception |-> FALSE,
          videos |-> IF c = "newspaper"
                     THEN fetch_newspaper_articles(env, Listing(c, s, published[c][s]), s, ids)
                     ELSE fetch_youtube_channel_videos(env, Listing(c, s, published[c][s]), s, ids,
                                                       IsPlaylist(s))]

\* A batch that takes every video of a result that is no exception.
KeptUnfiltered(c, result) == IF result.exception THEN <<>> ELSE result.videos

\* The videos of one gather result that go into the batch: none for an
\* exception; the Yemen loop keeps the Yemen-related videos only.
Kept(c, result) ==
    IF result.exception THEN <<>>
    ELSE IF c = "yemen"
    THEN SelectSeq(result.videos, LAMBDA v : is_yemen_related(v.title))
    ELSE result.videos

\* A batch that is empty as soon as one result is an exception.
CombineUnlessException(c, res, n) ==
    IF \E s \in Sources(c) : res[s].exception THEN <<>>
    ELSE LET RECURSIVE all(_)
             all(k) == IF k = 0 THEN <<>> ELSE all(k - 1) \o Kept(c, res[SourceList(c)[k]]) IN
         all(n)

\* "Combine all results (skip exceptions)", in the order of the source list.
RECURSIVE Combine(_, _, _)
Combine(c, res, n) ==
    IF n = 0 THEN <<>>
    ELSE Combine(c, res, n - 1) \o Kept(c, res[SourceList(c)[n]])

\* all_videos.sort(key=lambda x: x['published'], reverse=True)
AllVideos(c, res) == SortNewestFirst(Combine(c, res, Len(SourceList(c))))

\* The clock after the calls is later than every time an adapter has read:
\* an adapter reads the clock once for each entry it returns.
TotalEntries(c, s) == Len(Listing(c, s, Len(Feed(c, s))))

ClockStep(c) ==
    1 + CHOOSE m \in {TotalEntries(c, s) : s \in Sources(c)} :
            \A s \in Sources(c) : TotalEntries(c, s) <= m

(***************************************************************************)
(* The category loops: fetch_youtube_feeds, fetch_yemen_youtube_feeds,      *)
(* fetch_newspaper_feeds.  pc[c] is                                         *)
(*   "sleep"      await asyncio.sleep(...) (and before the first cycle)     *)
(*   "gather"     await asyncio.gather(tasks)                               *)
(*   "hung"       the same await, with a task that never returns            *)
(*   "persist"    in "for video in videos", and then the watermark update   *)
(*   "cluster"    await find_related_news_with_ai(...)                      *)
(*   "broadcast"  in "for item in new_items_found"                          *)
(***************************************************************************)
\* A loop that never clears its flag.
KeepsFlag(flag) == flag

\* first_run = False, at the end of the body of "while True".
AfterCycle(flag) == FALSE

\* while True: db = SessionLocal(); new_items_found = []; the fetch_all
\* function loads the id list of every source and awaits the gather.
StartCycle(c) ==
    /\ pc[c] = "sleep"
    /\ turn = "none"
    /\ budget[c] > 0
    /\ budget' = [budget EXCEPT ![c] = @ - 1]
    /\ new_items_found' = [new_items_found EXCEPT ![c] = <<>>]
    /\ last_ids' = [last_ids EXCEPT ![c] = [s \in Sources(c) |-> LoadIds(wm[c], s)]]
    /\ videos' = [videos EXCEPT ![c] = <<>>]
    /\ idx' = [idx EXCEPT ![c] = 1]
    /\ pc' = [pc EXCEPT ![c] = "gather"]
    /\ UNCHANGED <<published, now, time_mode, store, wm, threads, first_run,
                   turn, results, offered, sent, faults, clears, links, pubs,
                   errors, active_connections, received, response,
                   handler, sending>>

\* A query of the fetch_all function raises: the except clause of the loop
\* logs it; nothing was fetched, nothing is broadcast, the loop sleeps.
StartCycleFails(c) ==
    /\ pc[c] = "sleep"
    /\ turn = "none"
    /\ budget[c] > 0
    /\ faults > 0
    /\ budget' = [budget EXCEPT ![c] = @ - 1]
    /\ faults' = faults - 1
    /\ new_items_found' = [new_items_found EXCEPT ![c] = <<>>]
    /\ last_ids' = [last_ids EXCEPT ![c] = [s \in Sources(c) |-> <<>>]]
    /\ videos' = [videos EXCEPT ![c] = <<>>]
    /\ idx' = [idx EXCEPT ![c] = 1]
    /\ first_run' = [first_run EXCEPT ![c] = AfterCycle(@)]
    /\ errors' = Append(errors, <<c, "cycle">>)
    /\ UNCHANGED <<published, now, time_mode, store, wm, threads, pc, turn,
                   results, offered, sent, clears, links, pubs,
                   active_connections, received, response,
                   handler, sending>>

\* The gather returns: the results are combined and sorted, and the loop
\* enters "for video in videos".
Gather(c) ==
    /\ pc[c] = "gather"
    /\ turn = "none"
    /\ \E outcome \in [Sources(c) -> OutcomesOf(c)], service_ok \in BOOLEAN :
         LET met == Cardinality({s \in Sources(c) : outcome[s] # "ok"})
                    + (IF service_ok THEN 0 ELSE 1)
             res == [s \in Sources(c) |->
                        TaskResult(c, s, Env(outcome[s], service_ok), last_ids[c][s])] IN
         /\ met <= faults
         /\ faults' = faults - met
         /\ results' = [results EXCEPT ![c] = res]
         /\ videos' = [videos EXCEPT ![c] = AllVideos(c, res)]
    /\ now' = now + ClockStep(c)
    /\ idx' = [idx EXCEPT ![c] = 1]
    /\ pc' = [pc EXCEPT ![c] = "persist"]
    /\ turn' = c
    /\ UNCHANGED <<published, time_mode, store, wm, threads, first_run,
                   last_ids, new_items_found, offered, sent, budget, clears,
                   links, pubs,
                   errors, active_connections, received, response,
                   handler, sending>>

\* One task of the gather never returns: asyncio.gather waits for every
\* task and nothing bounds the time of a task, so the loop stays at the
\* await ("hung").
FetchHangs(c) ==
    /\ pc[c] = "gather"
    /\ turn = "none"
    /\ faults > 0
    /\ faults' = faults - 1
    /\ pc' = [pc EXCEPT ![c] = "hung"]
    /\ UNCHANGED <<published, now, time_mode, store, wm, threads, first_run,
                   turn, last_ids, results, videos, idx, new_items_found,
                   offered, sent, budget, clears, links, pubs, errors,
                   active_connections, received, response,
                   handler, sending>>

\* The items process_event_timeline offers to the reasoning service: the
\* world and newspaper items, without the item itself.
all_news_combined(tables, news_type, news_id) ==
    ({<<"world", tables["world"][i].id>> : i \in 1..Len(tables["world"])}
     \cup {<<"newspaper", tables["newspaper"][i].id>> : i \in 1..Len(tables["newspaper"])})
    \ {<<news_type, news_id>>}

\* A loop that never calls the reasoning service.
AwaitsServiceNever(first, news_type, candidates) == FALSE

\* A loop that clusters in its first cycle too.
AwaitsServiceAlways(first, news_type, candidates) ==
    news_type # "yemen" /\ candidates # {}

\* "if not first_run: await process_event_timeline(...)", which returns at
\* once for a Yemen item and when there is no other item to compare with;
\* otherwise it awaits find_related_news_with_ai.
AwaitsService(first, news_type, candidates) ==
    ~first /\ news_type # "yemen" /\ candidates # {}

\* A pass that finds the link already stored and writes the publish time of
\* the fetched video into the stored row.
SkipExistingRefreshes(c) ==
    /\ pc[c] = "persist"
    /\ turn = c
    /\ idx[c] <= Len(videos[c])
    /\ Exists(store[c], videos[c][idx[c]].link)
    /\ store' = [store EXCEPT ![c] =
                    [i \in 1..Len(@) |->
                        IF @[i].link = videos[c][idx[c]].link
                        THEN [@[i] EXCEPT !.published = videos[c][idx[c]].published]
                        ELSE @[i]]]
    /\ idx' = [idx EXCEPT ![c] = @ + 1]
    /\ UNCHANGED <<published, now, time_mode, wm, threads, first_run,
                   pc, turn, last_ids, results, videos, new_items_found,
                   offered, sent, budget, faults, clears, links, pubs,
                   errors, active_connections, received, response,
                   handler, sending>>

\* One pass of "for video in videos" that finds the link already stored.
SkipExisting(c) ==
    /\ pc[c] = "persist"
    /\ turn = c
    /\ idx[c] <= Len(videos[c])
    /\ Exists(store[c], videos[c][idx[c]].link)
    /\ idx' = [idx EXCEPT ![c] = @ + 1]
    /\ UNCHANGED <<published, now, time_mode, store, wm, threads, first_run,
                   pc, turn, last_ids, results, videos, new_items_found,
                   offered, sent, budget, faults, clears, links, pubs,
                   errors, active_connections, received, response,
                   handler, sending>>

\* A loop that stores its items with the model class of the world loop
\* (NewsItem) whatever its category.
PersistItemAsWorld(c) ==
    /\ pc[c] = "persist"
    /\ turn = c
    /\ idx[c] <= Len(videos[c])
    /\ ~Exists(store[c], videos[c][idx[c]].link)
    /\ LET new_item == NewItem(store["world"], videos[c][idx[c]])
           tables == [store EXCEPT !["world"] = Append(@, new_item)] IN
       /\ store' = tables
       /\ new_items_found' = [new_items_found EXCEPT ![c] = Append(@, new_item)]
       /\ IF AwaitsService(first_run[c], c, all_news_combined(tables, c, new_item.id))
          THEN /\ pc' = [pc EXCEPT ![c] = "cluster"]
               /\ turn' = "none"
               /\ offered' = [offered EXCEPT ![c] = all_news_combined(tables, c, new_item.id)]
               /\ idx' = idx
          ELSE /\ idx' = [idx EXCEPT ![c] = @ + 1]
               /\ UNCHANGED <<pc, turn, offered>>
    /\ UNCHANGED <<published, now, time_mode, wm, threads, first_run,
                   last_ids, results, videos, sent, budget, faults, clears,
                   links, pubs,
                   errors, active_connections, received, response,
                   handler, sending>>

\* One pass that adds and commits the item.  When it is not the first run,
\* process_event_timeline is called: for a Yemen item, or when there is no
\* other item, it returns at once; otherwise the loop awaits the service.
PersistItem(c) ==
    /\ pc[c] = "persist"
    /\ turn = c
    /\ idx[c] <= Len(videos[c])
    /\ ~Exists(store[c], videos[c][idx[c]].link)
    /\ LET new_item == NewItem(store[c], videos[c][idx[c]])
           tables == [store EXCEPT ![c] = Append(@, new_item)] IN
       /\ store' = tables
       /\ new_items_found' = [new_items_found EXCEPT ![c] = Append(@, new_item)]
       /\ IF AwaitsService(first_run[c], c, all_news_combined(tables, c, new_item.id))
          THEN /\ pc' = [pc EXCEPT ![c] = "cluster"]
               /\ turn' = "none"
               /\ offered' = [offered EXCEPT ![c] = all_news_combined(tables, c, new_item.id)]
               /\ idx' = idx
          ELSE /\ idx' = [idx EXCEPT ![c] = @ + 1]
               /\ UNCHANGED <<pc, turn, offered>>
    /\ UNCHANGED <<published, now, time_mode, wm, threads, first_run,
                   last_ids, results, videos, sent, budget, faults, clears,
                   links, pubs,
                   errors, active_connections, received, response,
                   handler, sending>>

\* A loop in which an item that cannot be persisted ends the pass over the
\* batch: one try around the whole "for video in videos".
PersistFailsEndsBatch(c) ==
    /\ pc[c] = "persist"
    /\ turn = c
    /\ idx[c] <= Len(videos[c])
    /\ faults > 0
    /\ faults' = faults - 1
    /\ idx' = [idx EXCEPT ![c] = 1]
    /\ pc' = [pc EXCEPT ![c] = "broadcast"]
    /\ errors' = Append(errors, <<c, "item">>)
    /\ UNCHANGED <<published, now, time_mode, store, wm, threads, first_run,
                   turn, last_ids, results, videos, new_items_found,
                   offered, sent, budget, clears, links, pubs,
                   active_connections, received, response,
                   handler, sending>>

\* One pass in which the query or the commit raises: db.rollback(), the
\* item is not stored, the loop goes on with the next video.
PersistFails(c) ==
    /\ pc[c] = "persist"
    /\ turn = c
    /\ idx[c] <= Len(videos[c])
    /\ faults > 0
    /\ faults' = faults - 1
    /\ idx' = [idx EXCEPT ![c] = @ + 1]
    /\ errors' = Append(errors, <<c, "item">>)
    /\ UNCHANGED <<published, now, time_mode, store, wm, threads, first_run,
                   pc, turn, last_ids, results, videos, new_items_found,
                   offered, sent, budget, clears, links, pubs,
                   active_connections, received, response,
                   handler, sending>>

\* The ids the reasoning service can name that were not in the list it was
\* given: the ids of the stored Yemen items (the prompt shows "yemen:5" as an
\* example of an id).
Unoffered == {<<"yemen", store["yemen"][i].id>> : i \in 1..Len(store["yemen"])}

\* The answers of the reasoning service that make process_event_timeline
\* store links: a thread title and the ids of related items, which are
\* parsed ("type:id") and stored without a look at the list that was
\* offered.  Every other answer (no related item, an error status, a
\* timeout, text that does not parse) stores nothing.
Answers(candidates) ==
    {<<>>} \cup (IF links > 0 THEN {<<x>> : x \in candidates \cup Unoffered} ELSE {})

\* A link that is stored with the related item as its main item.
EventThreadOfRelated(news_type, news_id, related) ==
    [news_id |-> related[2], news_type |-> related[1],
     related_news_id |-> news_id, related_news_type |-> news_type]

EventThread(news_type, news_id, related) ==
    [news_id |-> news_id, news_type |-> news_type,
     related_news_id |-> related[2], related_news_type |-> related[1]]

\* The values of a row of event_threads without its primary key.
LinkOf(row) ==
    [news_id |-> row.news_id, news_type |-> row.news_type,
     related_news_id |-> row.related_news_id,
     related_news_type |-> row.related_news_type]

\* A row of event_threads: the link and the primary key.
ThreadRow(id, link) ==
    [id |-> id, news_id |-> link.news_id, news_type |-> link.news_type,
     related_news_id |-> link.related_news_id,
     related_news_type |-> link.related_news_type]

\* INTEGER PRIMARY KEY of SQLite: one more than the largest id in the table.
NextThreadId(rows) ==
    IF rows = {} THEN 1
    ELSE 1 + CHOOSE m \in {r.id : r \in rows} : \A r \in rows : r.id <= m

\* "for related_id_str in result["related_ids"]": a related id is added
\* unless the query finds its link in the table.  The session does not
\* flush before a query (autoflush=False), so the query sees the rows that
\* were in the table when the call began (committed), not the rows added
\* in this loop (added): those reach the table with the one commit after
\* the loop.
RECURSIVE AddThreads(_, _, _, _, _)
AddThreads(committed, added, news_type, news_id, related_ids) ==
    IF related_ids = <<>> THEN committed \cup added
    ELSE LET link == EventThread(news_type, news_id, related_ids[1])
             existing == \E row \in committed : LinkOf(row) = link IN
         AddThreads(committed,
                    IF existing THEN added
                    ELSE added \cup {ThreadRow(NextThreadId(committed \cup added), link)},
                    news_type, news_id, Tail(related_ids))

\* find_related_news_with_ai returns: the links are stored and committed,
\* and the loop goes on with the next video.
ClusterReturn(c) ==
    /\ pc[c] = "cluster"
    /\ turn = "none"
    /\ LET new_item == new_items_found[c][Len(new_items_found[c])] IN
       \E related_ids \in Answers(offered[c]) :
           /\ threads' = AddThreads(threads, {}, c, new_item.id, related_ids)
           /\ links' = IF related_ids = <<>> THEN links ELSE links - 1
    /\ offered' = [offered EXCEPT ![c] = {}]
    /\ idx' = [idx EXCEPT ![c] = @ + 1]
    /\ pc' = [pc EXCEPT ![c] = "persist"]
    /\ turn' = c
    /\ UNCHANGED <<published, now, time_mode, store, wm, first_run, last_ids,
                   results, videos, new_items_found, sent, budget, faults,
                   clears, pubs,
                   errors, active_connections, received, response,
                   handler, sending>>

\* A loop in which a failed call of the reasoning service ends the pass over
\* the batch.
ClusterFailsEndsBatch(c) ==
    /\ pc[c] = "cluster"
    /\ turn = "none"
    /\ faults > 0
    /\ faults' = faults - 1
    /\ errors' = Append(errors, <<c, "service">>)
    /\ offered' = [offered EXCEPT ![c] = {}]
    /\ idx' = [idx EXCEPT ![c] = 1]
    /\ pc' = [pc EXCEPT ![c] = "broadcast"]
    /\ turn' = c
    /\ UNCHANGED <<published, now, time_mode, store, wm, threads, first_run,
                   last_ids, results, videos, new_items_found, sent, budget,
                   clears, links, pubs, active_connections, received, response,
                   handler, sending>>

\* The call of the reasoning service fails: a request error or a timeout
\* (requests.post raises), a status other than 200, or content that does not
\* parse.  find_related_news_with_ai logs it and returns no related ids, or
\* process_event_timeline logs it and rolls back; no link is stored and the
\* loop goes on with the next video.
ClusterFails(c) ==
    /\ pc[c] = "cluster"
    /\ turn = "none"
    /\ faults > 0
    /\ faults' = faults - 1
    /\ errors' = Append(errors, <<c, "service">>)
    /\ offered' = [offered EXCEPT ![c] = {}]
    /\ idx' = [idx EXCEPT ![c] = @ + 1]
    /\ pc' = [pc EXCEPT ![c] = "persist"]
    /\ turn' = c
    /\ UNCHANGED <<published, now, time_mode, store, wm, threads, first_run,
                   last_ids, results, videos, new_items_found, sent, budget,
                   clears, links, pubs, active_connections, received, response,
                   handler, sending>>

\* An update that records the ids of the items persisted in the cycle only.
UpdateWatermarksOfPersisted(c) ==
    /\ pc[c] = "persist"
    /\ turn = c
    /\ idx[c] > Len(videos[c])
    /\ LET persisted == SelectSeq(videos[c], LAMBDA v :
                            \E i \in 1..Len(new_items_found[c]) :
                                new_items_found[c][i].link = v.link)
           order == UpdateOrder(c, persisted) IN
       wm' = [wm EXCEPT ![c] = UpdatedTable(@, persisted, order, Len(order))]
    /\ idx' = [idx EXCEPT ![c] = 1]
    /\ pc' = [pc EXCEPT ![c] = "broadcast"]
    /\ UNCHANGED <<published, now, time_mode, store, threads, first_run,
                   turn, last_ids, results, videos, new_items_found, offered,
                   sent, budget, faults, clears, links, pubs, errors,
                   active_connections, received, response,
                   handler, sending>>

\* "Update last 5 videos for each channel": every channel of the batch gets
\* its record written and committed; then the loop turns to the broadcast.
\* A record whose stored ids are no list makes the merge raise: the records
\* committed before it stay, the except clause of the loop logs the error.
UpdateWatermarks(c) ==
    /\ pc[c] = "persist"
    /\ turn = c
    /\ idx[c] > Len(videos[c])
    /\ LET order == UpdateOrder(c, videos[c]) IN
       /\ wm' = [wm EXCEPT ![c] =
                    UpdatedTable(@, videos[c], order, Committable(wm[c], order))]
       /\ errors' = IF Committable(wm[c], order) = Len(order) THEN errors
                    ELSE Append(errors, <<c, "cycle">>)
    /\ idx' = [idx EXCEPT ![c] = 1]
    /\ pc' = [pc EXCEPT ![c] = "broadcast"]
    /\ UNCHANGED <<published, now, time_mode, store, threads, first_run,
                   turn, last_ids, results, videos, new_items_found, offered,
                   sent, budget, faults, clears, links, pubs,
                   active_connections, received, response,
                   handler, sending>>

\* A loop out of which a failed watermark update propagates: the coroutine
\* of the loop ends with the exception.
UpdateWatermarksFailsEndsLoop(c) ==
    /\ pc[c] = "persist"
    /\ turn = c
    /\ idx[c] > Len(videos[c])
    /\ faults > 0
    /\ faults' = faults - 1
    /\ errors' = Append(errors, <<c, "cycle">>)
    /\ pc' = [pc EXCEPT ![c] = "ended"]
    /\ turn' = "none"
    /\ UNCHANGED <<published, now, time_mode, store, wm, threads, first_run,
                   last_ids, results, videos, idx, new_items_found, offered,
                   sent, budget, clears, links, pubs, active_connections,
                   received, response,
                   handler, sending>>

\* The update of one channel raises: the records committed before it stay,
\* the except clause of the loop logs the error, the loop turns to the
\* broadcast.
UpdateWatermarksFails(c) ==
    /\ pc[c] = "persist"
    /\ turn = c
    /\ idx[c] > Len(videos[c])
    /\ faults > 0
    /\ faults' = faults - 1
    /\ LET order == UpdateOrder(c, videos[c]) IN
       \E n \in 0..(Committable(wm[c], order) - 1) :
           wm' = [wm EXCEPT ![c] = UpdatedTable(@, videos[c], order, n)]
    /\ errors' = Append(errors, <<c, "cycle">>)
    /\ idx' = [idx EXCEPT ![c] = 1]
    /\ pc' = [pc EXCEPT ![c] = "broadcast"]
    /\ UNCHANGED <<published, now, time_mode, store, threads, first_run,
                   turn, last_ids, results, videos, new_items_found, offered,
                   sent, budget, clears, links, pubs,
                   active_connections, received, response,
                   handler, sending>>

\* A broadcast that has no try around the send: the first send that raises
\* ends it.
RECURSIVE broadcast_unguarded(_, _, _, _)
broadcast_unguarded(connections, inbox, raising, message) ==
    IF connections = <<>> \/ connections[1] \in raising THEN inbox
    ELSE broadcast_unguarded(SubSeq(connections, 2, Len(connections)),
                             [inbox EXCEPT ![connections[1]] = Append(@, message)],
                             raising, message)

\* ConnectionManager.broadcast: for connection in self.active_connections:
\* try: await connection.send_text(message)  except Exception: pass
RECURSIVE broadcast(_, _, _, _)
broadcast(connections, inbox, raising, message) ==
    IF connections = <<>> THEN inbox
    ELSE broadcast(SubSeq(connections, 2, Len(connections)),
                   IF connections[1] \in raising THEN inbox
                   ELSE [inbox EXCEPT ![connections[1]] = Append(@, message)],
                   raising, message)

\* The sockets whose send_text may raise during one broadcast.
SendFailures ==
    {raising \in SUBSET Range(active_connections) : Cardinality(raising) <= faults}

\* A broadcast loop that sends the first item of the cycle in every pass.
BroadcastFirstItem(c) ==
    /\ pc[c] = "broadcast"
    /\ turn = c
    /\ idx[c] <= Len(new_items_found[c])
    /\ LET message == [type |-> EventType(c), data |-> new_items_found[c][1]] IN
       /\ sent' = [sent EXCEPT ![c] = Append(@, message)]
       /\ received' = broadcast(active_connections, received, {}, message)
    /\ idx' = [idx EXCEPT ![c] = @ + 1]
    /\ UNCHANGED <<published, now, time_mode, store, wm, threads, first_run,
                   pc, turn, last_ids, results, videos, new_items_found,
                   offered, budget, faults, clears, links, pubs,
                   errors, active_connections, response,
                   handler, sending>>

\* await manager.broadcast(json.dumps({"type": ..., "data": item}))
BroadcastItem(c) ==
    /\ pc[c] = "broadcast"
    /\ turn = c
    /\ idx[c] <= Len(new_items_found[c])
    /\ LET message == [type |-> EventType(c), data |-> new_items_found[c][idx[c]]] IN
       /\ sent' = [sent EXCEPT ![c] = Append(@, message)]
       /\ \E raising \in SendFailures :
            /\ received' = broadcast(active_connections, received, raising, message)
            /\ faults' = faults - Cardinality(raising)
    /\ idx' = [idx EXCEPT ![c] = @ + 1]
    /\ UNCHANGED <<published, now, time_mode, store, wm, threads, first_run,
                   pc, turn, last_ids, results, videos, new_items_found,
                   offered, budget, clears, links, pubs,
                   errors, active_connections, response,
                   handler, sending>>

\* db.close(); first_run = False; await asyncio.sleep(...)
FinishCycle(c) ==
    /\ pc[c] = "broadcast"
    /\ turn = c
    /\ idx[c] > Len(new_items_found[c])
    /\ first_run' = [first_run EXCEPT ![c] = AfterCycle(@)]
    /\ pc' = [pc EXCEPT ![c] = "sleep"]
    /\ turn' = "none"
    /\ UNCHANGED <<published, now, time_mode, store, wm, threads, last_ids,
                   results, videos, idx, new_items_found, offered, sent,
                   budget, faults, clears, links, pubs,
                   errors, active_connections, received, response,
                   handler, sending>>

(***************************************************************************)
(* The id list of a watermark is a string column (last_video_ids,          *)
(* last_article_ids): something other than the program writes a text into   *)
(* the record of a source while the loop sleeps.                            *)
(***************************************************************************)
CorruptWatermark(c, s) ==
    /\ pc[c] = "sleep"
    /\ turn = "none"
    /\ budget[c] > 0
    /\ faults > 0
    /\ s \in DOMAIN wm[c]
    /\ faults' = faults - 1
    /\ \E text \in {CorruptText, StringText} :
         wm' = [wm EXCEPT ![c][s].last_video_ids = text]
    /\ UNCHANGED <<published, now, time_mode, store, threads, first_run, pc,
                   turn, last_ids, results, videos, idx, new_items_found,
                   offered, sent, budget, clears, links, pubs, errors,
                   active_connections, received, response,
                   handler, sending>>

(***************************************************************************)
(* POST /api/clear-all.                                                     *)
(***************************************************************************)
\* A clear-all that leaves the thread links.
clear_all_news_keeps_threads ==
    /\ turn = "none"
    /\ clears > 0
    /\ clears' = clears - 1
    /\ store' = [c \in Categories |-> <<>>]
    /\ wm' = [c \in Categories |-> <<>>]
    /\ UNCHANGED <<published, now, time_mode, threads, first_run, pc, turn,
                   last_ids, results, videos, idx, new_items_found, offered,
                   sent, budget, faults, links, pubs, errors,
                   active_connections, received, response,
                   handler, sending>>

clear_all_news ==
    /\ turn = "none"
    /\ clears > 0
    /\ clears' = clears - 1
    /\ store' = [c \in Categories |-> <<>>]
    /\ wm' = [c \in Categories |-> <<>>]
    /\ threads' = {}
    /\ UNCHANGED <<published, now, time_mode, first_run, pc, turn, last_ids,
                   results, videos, idx, new_items_found, offered, sent,
                   budget, faults, links, pubs,
                   errors, active_connections, received, response,
                   handler, sending>>

\* A delete or the commit raises: db.rollback(), nothing is changed.
clear_all_news_fails ==
    /\ turn = "none"
    /\ clears > 0
    /\ faults > 0
    /\ clears' = clears - 1
    /\ faults' = faults - 1
    /\ errors' = Append(errors, <<"admin", "clear">>)
    /\ UNCHANGED <<published, now, time_mode, store, wm, threads, first_run,
                   pc, turn, last_ids, results, videos, idx, new_items_found,
                   offered, sent, budget, links, pubs,
                   active_connections, received, response,
                   handler, sending>>

(***************************************************************************)
(* GET /api/event-timeline/{news_type}/{news_id}.                           *)
(***************************************************************************)
\* The table a type names: 'world', 'yemen', and every other value the
\* newspaper table.
TableOf(rtype) ==
    CASE rtype = "world" -> "world"
      [] rtype = "yemen" -> "yemen"
      [] OTHER -> "newspaper"

\* db.query(...).filter(id == rid).first(), as what goes into related_news:
\* the row with its fields and the type, or nothing when there is no row.
RelatedNews(tables, rid, rtype) ==
    {[id |-> row.id, title |-> row.title, link |-> row.link,
      published |-> row.published, source |-> row.source, news_type |-> rtype]
        : row \in {r \in Range(tables[TableOf(rtype)]) : r.id = rid}}

\* A timeline that follows the links of the item only, not the links to it.
related_items_forward(rows, news_type, news_id) ==
    {<<t.related_news_id, t.related_news_type>> :
        t \in {u \in rows : u.news_id = news_id /\ u.news_type = news_type}}

\* related_items: the related items of the links whose main item is the
\* item, and the main items of the links whose related item it is.
related_items(rows, news_type, news_id) ==
    {<<t.related_news_id, t.related_news_type>> :
        t \in {u \in rows : u.news_id = news_id /\ u.news_type = news_type}}
    \cup {<<t.news_id, t.news_type>> :
        t \in {u \in rows : u.related_news_id = news_id /\ u.related_news_type = news_type}}

\* related_news.sort(key=lambda x: x['published']): the items come out of a
\* set in any order and the sort is stable, so items with equal publish time
\* may be in either order.
SortedOldestFirst(items) ==
    {seq \in [1..Cardinality(items) -> items] :
        /\ \A i, j \in DOMAIN seq : i < j => seq[i] # seq[j]
        /\ \A i, j \in DOMAIN seq : i < j => seq[i].published <= seq[j].published}

\* The handler: it writes nothing.
get_event_timeline(news_type, news_id) ==
    /\ \E related_news \in
           SortedOldestFirst(UNION {RelatedNews(store, x[1], x[2]) :
                                       x \in related_items(threads, news_type, news_id)}) :
         response' = [handler |-> "timeline", news_type |-> news_type,
                      current_news_id |-> news_id, related_news |-> related_news]
    /\ UNCHANGED <<published, now, time_mode, store, wm, threads, first_run,
                   pc, turn, last_ids, results, videos, idx, new_items_found,
                   offered, sent, budget, faults, clears, links, pubs, errors,
                   active_connections, received, handler, sending>>

(***************************************************************************)
(* The filter the client applies to the timeline it has read: the lexical   *)
(* overlap of two items is the Jaccard similarity of their title words      *)
(* without the stop words, in percent.                                      *)
(***************************************************************************)
StopWords == {"the", "of"}

Tokens(title) == {Lower(w) : w \in Range(title)} \ StopWords

Similarity(a, b) ==
    IF Tokens(a.title) \cup Tokens(b.title) = {} THEN 0
    ELSE (100 * Cardinality(Tokens(a.title) \cap Tokens(b.title)))
            \div Cardinality(Tokens(a.title) \cup Tokens(b.title))

\* The thresholds, in percent.
BestThreshold == 15
AverageThreshold == 10

RECURSIVE SumOf(_, _)
SumOf(f, S) == IF S = {} THEN 0 ELSE LET x == CHOOSE y \in S : TRUE IN f[x] + SumOf(f, S \ {x})

\* The best and the average similarity of item i of the timeline to the
\* other items of it.
BestSimilarity(items, i) ==
    LET others == DOMAIN items \ {i}
        sims == [j \in others |-> Similarity(items[i], items[j])] IN
    IF others = {} THEN 0
    ELSE CHOOSE m \in {sims[j] : j \in others} : \A j \in others : sims[j] <= m

AverageSimilarity(items, i) ==
    LET others == DOMAIN items \ {i}
        sims == [j \in others |-> Similarity(items[i], items[j])] IN
    IF others = {} THEN 0 ELSE SumOf(sims, others) \div Cardinality(others)

Implausible(items, i) ==
    /\ BestSimilarity(items, i) < BestThreshold
    /\ AverageSimilarity(items, i) < AverageThreshold

\* The timeline shown: the items that are not implausible, or all items when
\* more than half of them would go.
PlausibleTimeline(items) ==
    LET kept == {i \in DOMAIN items : ~Implausible(items, i)}
        RECURSIVE pick(_)
        pick(i) == IF i > Len(items) THEN <<>>
                   ELSE (IF i \in kept THEN <<items[i]>> ELSE <<>>) \o pick(i + 1) IN
    IF 2 * (Len(items) - Cardinality(kept)) > Len(items) THEN items ELSE pick(1)

(***************************************************************************)
(* The read handlers on stored data: the tables hold what the loops have    *)
(* persisted from the first listings of one source each and what            *)
(* process_event_timeline has linked; the handlers are called any number of *)
(* times.                                                                   *)
(***************************************************************************)
MaxRows == 3
MaxThreadLinks == 3

\* The rows of the first n videos of a source's first fetch, in batch order.
RECURSIVE Persisted(_, _)
Persisted(batch, n) ==
    IF n = 0 THEN <<>>
    ELSE LET rows == Persisted(batch, n - 1) IN Append(rows, NewItem(rows, batch[n]))

FirstBatch(c) ==
    LET s == SourceList(c)[1]
        env == [outcome |-> "ok", time |-> "dated", service_ok |-> TRUE, t0 |-> T0]
        entries == Listing(c, s, Len(Feed(c, s))) IN
    SortNewestFirst(Kept(c, [exception |-> FALSE,
                             videos |-> IF c = "newspaper"
                                        THEN fetch_newspaper_articles(env, entries, s, <<>>)
                                        ELSE fetch_youtube_channel_videos(env, entries, s, <<>>,
                                                                          IsPlaylist(s))]))

\* The links process_event_timeline can have stored between rows: the main
\* item is a world or newspaper item, the related item another one that was
\* stored when the main item was persisted.
\* The rows of a table that holds these links, with the primary keys in the
\* order in which the rows were added.
RECURSIVE Numbered(_)
Numbered(links_left) ==
    IF links_left = {} THEN {}
    ELSE LET last == CHOOSE l \in links_left : TRUE
             before == Numbered(links_left \ {last}) IN
         before \cup {ThreadRow(Cardinality(before) + 1, last)}

LinksBetween(tables) ==
    {EventThread(m[1], m[2], r) :
        m \in all_news_combined(tables, "yemen", 0),
        r \in all_news_combined(tables, "yemen", 0)}
    \ {t \in {EventThread(m[1], m[2], r) :
                m \in all_news_combined(tables, "yemen", 0),
                r \in all_news_combined(tables, "yemen", 0)} :
         t.news_type = t.related_news_type /\ t.related_news_id >= t.news_id}

ReadInit ==
    /\ now = T0
    /\ time_mode = "dated"
    /\ \E n \in [Categories -> 0..MaxRows] :
         /\ n["yemen"] <= 1
         /\ \A c \in Categories : n[c] <= Len(FirstBatch(c))
         /\ store = [c \in Categories |-> Persisted(FirstBatch(c), n[c])]
    /\ wm = [c \in Categories |->
                IF store[c] = <<>> THEN <<>>
                ELSE UpdatedTable(<<>>, FirstBatch(c), UpdateOrder(c, FirstBatch(c)),
                                  Len(UpdateOrder(c, FirstBatch(c))))]
    /\ threads \in {Numbered(rows) : rows \in
                       {ls \in SUBSET LinksBetween(store) : Cardinality(ls) <= MaxThreadLinks}}
    /\ first_run = [c \in Categories |-> FALSE]
    /\ pc = [c \in Categories |-> "sleep"]
    /\ turn = "none"
    /\ last_ids = [c \in Categories |-> [s \in Sources(c) |-> <<>>]]
    /\ results = [c \in Categories |-> [s \in Sources(c) |-> NoResult]]
    /\ videos = [c \in Categories |-> <<>>]
    /\ idx = [c \in Categories |-> 1]
    /\ new_items_found = [c \in Categories |-> <<>>]
    /\ offered = [c \in Categories |-> {}]
    /\ sent = [c \in Categories |-> <<>>]
    /\ errors = <<>>
    /\ active_connections = Listeners
    /\ received = [l \in Range(Listeners) |-> <<>>]
    /\ response = NoResponse
    /\ handler = [l \in Range(Listeners) |-> "open"]
    /\ sending = NoSend
    /\ published = [c \in Categories |-> [s \in Sources(c) |-> Len(Feed(c, s))]]
    /\ budget = [c \in Categories |-> 0]
    /\ faults = 0
    /\ links = 0
    /\ pubs = 0
    /\ clears = 0

ReadNext ==
    \E news_type \in Categories : \E news_id \in 1..(MaxRows + 1) :
        get_event_timeline(news_type, news_id)

ReadSpec == ReadInit /\ [][ReadNext]_vars

(***************************************************************************)
(* The listeners of /ws and the broadcast, send by send.  A handler         *)
(* (websocket_endpoint) runs when no other coroutine does: when every loop  *)
(* is at an await, which includes the await of send_text inside a           *)
(* broadcast.  BroadcastItem above is a broadcast during which no handler   *)
(* runs; BeginBroadcast and SendReturns are the same call with the          *)
(* handlers running between its sends.                                      *)
(***************************************************************************)
MaxSendFaults == 1

HandlersMayRun == turn = "none" \/ sending.busy

\* list.remove(websocket): the list without its first occurrence.
Remove(connections, websocket) ==
    LET at == CHOOSE k \in 1..Len(connections) :
                  /\ connections[k] = websocket
                  /\ \A j \in 1..(k - 1) : connections[j] # websocket IN
    SubSeq(connections, 1, at - 1) \o SubSeq(connections, at + 1, Len(connections))

\* await manager.connect(websocket): accept() has returned, the socket is
\* appended and the handler waits in receive_text.
Connect(l) ==
    /\ HandlersMayRun
    /\ handler[l] = "new"
    /\ active_connections' = Append(active_connections, l)
    /\ handler' = [handler EXCEPT ![l] = "open"]
    /\ UNCHANGED <<published, now, time_mode, store, wm, threads, first_run,
                   pc, turn, last_ids, results, videos, idx, new_items_found,
                   offered, sent, budget, faults, clears, links, pubs, errors,
                   received, response, sending>>

\* receive_text raises WebSocketDisconnect: manager.disconnect(websocket)
\* removes the socket if it is in the list, and the handler ends.
Disconnect(l) ==
    /\ HandlersMayRun
    /\ handler[l] = "open"
    /\ active_connections' = IF l \in Range(active_connections)
                             THEN Remove(active_connections, l)
                             ELSE active_connections
    /\ handler' = [handler EXCEPT ![l] = "ended"]
    /\ sending' = IF sending.busy THEN [sending EXCEPT !.steady = @ \ {l}] ELSE sending
    /\ UNCHANGED <<published, now, time_mode, store, wm, threads, first_run,
                   pc, turn, last_ids, results, videos, idx, new_items_found,
                   offered, sent, budget, faults, clears, links, pubs, errors,
                   received, response>>

\* await manager.broadcast(json.dumps({"type": ..., "data": item})): the for
\* loop takes the first connection of the list and awaits its send_text; an
\* empty list ends the call at once.
BeginBroadcast(c) ==
    /\ pc[c] = "broadcast"
    /\ turn = c
    /\ idx[c] <= Len(new_items_found[c])
    /\ ~sending.busy
    /\ LET message == [type |-> EventType(c), data |-> new_items_found[c][idx[c]]] IN
       /\ sent' = [sent EXCEPT ![c] = Append(@, message)]
       /\ IF active_connections = <<>>
          THEN /\ sending' = [NoSend EXCEPT !.message = message]
               /\ idx' = [idx EXCEPT ![c] = @ + 1]
          ELSE /\ sending' = [busy |-> TRUE, message |-> message, i |-> 1,
                              to |-> active_connections[1],
                              start |-> active_connections,
                              steady |-> Range(active_connections),
                              failed |-> {}]
               /\ idx' = idx
    /\ UNCHANGED <<published, now, time_mode, store, wm, threads, first_run,
                   pc, turn, last_ids, results, videos, new_items_found,
                   offered, budget, faults, clears, links, pubs, errors,
                   active_connections, received, response, handler>>

\* The awaited send_text returns or raises ("except Exception: pass"), and
\* the for loop asks its iterator for the next connection: the one at
\* position i of the list as it is now, or the end of the loop when the list
\* is no longer than i.
SendReturns(c) ==
    /\ pc[c] = "broadcast"
    /\ turn = c
    /\ sending.busy
    /\ \E raised \in (IF faults > 0 THEN BOOLEAN ELSE {FALSE}) :
         /\ faults' = IF raised THEN faults - 1 ELSE faults
         /\ received' = IF raised THEN received
                        ELSE [received EXCEPT ![sending.to] = Append(@, sending.message)]
         /\ LET failed == IF raised THEN sending.failed \cup {sending.to}
                          ELSE sending.failed IN
            IF sending.i < Len(active_connections)
            THEN /\ sending' = [sending EXCEPT !.i = @ + 1,
                                               !.to = active_connections[sending.i + 1],
                                               !.failed = failed]
                 /\ idx' = idx
            ELSE /\ sending' = [sending EXCEPT !.busy = FALSE, !.to = "none",
                                               !.failed = failed]
                 /\ idx' = [idx EXCEPT ![c] = @ + 1]
    /\ UNCHANGED <<published, now, time_mode, store, wm, threads, first_run,
                   pc, turn, last_ids, results, videos, new_items_found,
                   offered, sent, budget, clears, links, pubs, errors,
                   active_connections, response, handler>>

\* receive_text times out and the send_text of the keep-alive ping raises:
\* "except: break" leaves the while loop, the function returns past the
\* except clauses of the outer try, and nothing calls manager.disconnect.
PingFails(l) ==
    /\ HandlersMayRun
    /\ handler[l] = "open"
    /\ faults > 0
    /\ faults' = faults - 1
    /\ handler' = [handler EXCEPT ![l] = "ended"]
    /\ UNCHANGED <<published, now, time_mode, store, wm, threads, first_run,
                   pc, turn, last_ids, results, videos, idx, new_items_found,
                   offered, sent, budget, clears, links, pubs, errors,
                   active_connections, received, response, sending>>

\* The first poll of the world loop with the listeners of /ws coming and
\* going: nobody is connected when the program starts.
ListenInit ==
    /\ now = T0
    /\ time_mode \in TimeModes
    /\ store = [c \in Categories |-> <<>>]
    /\ wm = [c \in Categories |-> <<>>]
    /\ threads = {}
    /\ first_run = [c \in Categories |-> TRUE]
    /\ pc = [c \in Categories |-> "sleep"]
    /\ turn = "none"
    /\ last_ids = [c \in Categories |-> [s \in Sources(c) |-> <<>>]]
    /\ results = [c \in Categories |-> [s \in Sources(c) |-> NoResult]]
    /\ videos = [c \in Categories |-> <<>>]
    /\ idx = [c \in Categories |-> 1]
    /\ new_items_found = [c \in Categories |-> <<>>]
    /\ offered = [c \in Categories |-> {}]
    /\ sent = [c \in Categories |-> <<>>]
    /\ errors = <<>>
    /\ active_connections = <<>>
    /\ received = [l \in Range(Listeners) |-> <<>>]
    /\ response = NoResponse
    /\ handler = [l \in Range(Listeners) |-> "new"]
    /\ sending = NoSend
    /\ published = [c \in Categories |-> [s \in Sources(c) |-> 1]]
    /\ budget = [c \in Categories |-> IF c = "world" THEN SeedCycles ELSE 0]
    /\ faults \in 0..MaxSendFaults
    /\ links = 0
    /\ pubs = 0
    /\ clears = 0

ListenNext ==
    \/ \E c \in Categories : StartCycle(c)
    \/ \E c \in Categories : Gather(c)
    \/ \E c \in Categories : PersistItem(c)
    \/ \E c \in Categories : UpdateWatermarks(c)
    \/ \E c \in Categories : BeginBroadcast(c)
    \/ \E c \in Categories : SendReturns(c)
    \/ \E c \in Categories : FinishCycle(c)
    \/ \E l \in Range(Listeners) : Connect(l)
    \/ \E l \in Range(Listeners) : Disconnect(l)
    \/ \E l \in Range(Listeners) : PingFails(l)

ListenSpec == ListenInit /\ [][ListenNext]_vars

(***************************************************************************)
(* process_event_timeline as a whole, for every answer of the reasoning     *)
(* service: the calls for the newest item of a category over stored item    *)
(* tables.                                                                 *)
(***************************************************************************)
MaxAnswerLen == 2
MaxThreadRows == 3
MaxStored == 2

\* An id that no row has, and a type prefix that is no category.
AbsentId == MaxRows + 2
OtherType == "news"

\* What an answer can name: items that were offered, the item of the call,
\* stored Yemen items, an id of no item, and an id under a type prefix that
\* is no category.
Nameable(tables, news_type, news_id) ==
    all_news_combined(tables, news_type, news_id)
    \cup {<<news_type, news_id>>}
    \cup {<<"yemen", tables["yemen"][i].id>> : i \in 1..Len(tables["yemen"])}
    \cup {<<"world", AbsentId>>}
    \cup {<<OtherType, tables["newspaper"][i].id>> : i \in 1..Len(tables["newspaper"])}

\* result["related_ids"] of an answer with a thread title: the sequences of
\* up to MaxAnswerLen ids, the same id twice included.
RelatedIds(nameable) ==
    UNION {[1..n -> nameable] : n \in 1..MaxAnswerLen}

\* process_event_timeline(db, news_id, news_title, news_summary, news_type)
\* for the newest item of the table of news_type, with an answer that has a
\* thread title and these related ids: nothing for a Yemen item or when
\* there is no other item to offer, else the add loop and the commit.
process_event_timeline(news_type, related_ids) ==
    /\ store[news_type] # <<>>
    /\ Cardinality(threads) + Len(related_ids) <= MaxThreadRows
    /\ LET news_id == store[news_type][Len(store[news_type])].id IN
       threads' = IF \/ news_type = "yemen"
                     \/ all_news_combined(store, news_type, news_id) = {}
                  THEN threads
                  ELSE AddThreads(threads, {}, news_type, news_id, related_ids)
    /\ UNCHANGED <<published, now, time_mode, store, wm, first_run, pc, turn,
                   last_ids, results, videos, idx, new_items_found, offered,
                   sent, budget, faults, clears, links, pubs, errors,
                   active_connections, received, response, handler, sending>>

ThreadInit ==
    /\ now = T0
    /\ time_mode = "dated"
    /\ \E n \in [Categories -> 0..MaxStored] :
         /\ n["yemen"] <= 1
         /\ \A c \in Categories : n[c] <= Len(FirstBatch(c))
         /\ store = [c \in Categories |-> Persisted(FirstBatch(c), n[c])]
    /\ wm = [c \in Categories |->
                IF store[c] = <<>> THEN <<>>
                ELSE UpdatedTable(<<>>, FirstBatch(c), UpdateOrder(c, FirstBatch(c)),
                                  Len(UpdateOrder(c, FirstBatch(c))))]
    /\ threads = {}
    /\ first_run = [c \in Categories |-> FALSE]
    /\ pc = [c \in Categories |-> "sleep"]
    /\ turn = "none"
    /\ last_ids = [c \in Categories |-> [s \in Sources(c) |-> <<>>]]
    /\ results = [c \in Categories |-> [s \in Sources(c) |-> NoResult]]
    /\ videos = [c \in Categories |-> <<>>]
    /\ idx = [c \in Categories |-> 1]
    /\ new_items_found = [c \in Categories |-> <<>>]
    /\ offered = [c \in Categories |-> {}]
    /\ sent = [c \in Categories |-> <<>>]
    /\ errors = <<>>
    /\ active_connections = Listeners
    /\ received = [l \in Range(Listeners) |-> <<>>]
    /\ response = NoResponse
    /\ handler = [l \in Range(Listeners) |-> "open"]
    /\ sending = NoSend
    /\ published = [c \in Categories |-> [s \in Sources(c) |-> Len(Feed(c, s))]]
    /\ budget = [c \in Categories |-> 0]
    /\ faults = 0
    /\ links = 0
    /\ pubs = 0
    /\ clears = 0

ThreadNext ==
    \/ \E news_type \in {c \in Categories : store[c] # <<>>} :
         \E related_ids \in RelatedIds(Nameable(store, news_type,
                                                store[news_type][Len(store[news_type])].id)) :
             process_event_timeline(news_type, related_ids)
    \/ \E news_type \in Categories : \E news_id \in 1..MaxStored :
         get_event_timeline(news_type, news_id)

ThreadSpec == ThreadInit /\ [][ThreadNext]_vars

(***************************************************************************)
(* GET /api/news, /api/yemen-news, /api/newspaper-news: the paginated read  *)
(* of a category.                                                          *)
(***************************************************************************)
MaxPage == 4
MaxLimit == 3

\* A read that skips page * limit rows.
SkipOnePageMore(page, limit) == page * limit

\* skip = (page - 1) * limit
Skip(page, limit) == (page - 1) * limit

\* order_by(desc(created_at), desc(id)): row v stands before the rows that
\* were added earlier and, among the rows of the same time, before those of
\* smaller id.
InsertNewestAdded(sorted, v) ==
    LET k == Cardinality({j \in 1..Len(sorted) :
                 \/ sorted[j].created_at > v.created_at
                 \/ sorted[j].created_at = v.created_at /\ sorted[j].id > v.id}) IN
    SubSeq(sorted, 1, k) \o <<v>> \o SubSeq(sorted, k + 1, Len(sorted))

RECURSIVE OrderNewestAdded(_)
OrderNewestAdded(rows) ==
    IF rows = <<>> THEN <<>>
    ELSE InsertNewestAdded(OrderNewestAdded(SubSeq(rows, 1, Len(rows) - 1)), rows[Len(rows)])

\* .offset(skip).limit(limit).all()
OffsetLimit(rows, skip, limit) ==
    SubSeq(rows, skip + 1, IF skip + limit < Len(rows) THEN skip + limit ELSE Len(rows))

\* get_news(page, limit), get_yemen_news, get_newspaper_news
get_news(c, page, limit) ==
    /\ response' = [handler |-> "news", category |-> c, page |-> page, limit |-> limit,
                    items |-> OffsetLimit(OrderNewestAdded(store[c]), Skip(page, limit), limit),
                    total |-> Len(store[c])]
    /\ UNCHANGED <<published, now, time_mode, store, wm, threads, first_run,
                   pc, turn, last_ids, results, videos, idx, new_items_found,
                   offered, sent, budget, faults, clears, links, pubs, errors,
                   active_connections, received, handler, sending>>

\* The rows of a table after the first n candidates of a batch were added,
\* the first early of them at the clock T0 and the others one tick later.
RECURSIVE PersistedAt(_, _, _)
PersistedAt(batch, n, early) ==
    IF n = 0 THEN <<>>
    ELSE LET rows == PersistedAt(batch, n - 1, early) IN
         Append(rows, NewItemAt(rows, batch[n], IF n <= early THEN T0 ELSE T0 + 1))

\* Tables that hold the items of a first poll, added at one or two times of
\* the clock, and no read yet.
PageInit ==
    /\ now = T0 + 1
    /\ time_mode = "dated"
    /\ \E n \in [Categories -> 0..MaxRows], early \in [Categories -> 0..MaxRows] :
         /\ \A c \in Categories : n[c] <= Len(FirstBatch(c)) /\ early[c] <= n[c]
         /\ n["yemen"] <= 1 /\ n["newspaper"] <= 1
         /\ store = [c \in Categories |-> PersistedAt(FirstBatch(c), n[c], early[c])]
    /\ wm = [c \in Categories |->
                IF store[c] = <<>> THEN <<>>
                ELSE UpdatedTable(<<>>, FirstBatch(c), UpdateOrder(c, FirstBatch(c)),
                                  Len(UpdateOrder(c, FirstBatch(c))))]
    /\ threads = {}
    /\ first_run = [c \in Categories |-> FALSE]
    /\ pc = [c \in Categories |-> "sleep"]
    /\ turn = "none"
    /\ last_ids = [c \in Categories |-> [s \in Sources(c) |-> <<>>]]
    /\ results = [c \in Categories |-> [s \in Sources(c) |-> NoResult]]
    /\ videos = [c \in Categories |-> <<>>]
    /\ idx = [c \in Categories |-> 1]
    /\ new_items_found = [c \in Categories |-> <<>>]
    /\ offered = [c \in Categories |-> {}]
    /\ sent = [c \in Categories |-> <<>>]
    /\ errors = <<>>
    /\ active_connections = Listeners
    /\ received = [l \in Range(Listeners) |-> <<>>]
    /\ response = NoResponse
    /\ handler = [l \in Range(Listeners) |-> "open"]
    /\ sending = NoSend
    /\ published = [c \in Categories |-> [s \in Sources(c) |-> Len(Feed(c, s))]]
    /\ budget = [c \in Categories |-> 0]
    /\ faults = 0
    /\ links = 0
    /\ pubs = 0
    /\ clears = 0

PageNext ==
    \E c \in Categories : \E page \in 1..MaxPage : \E limit \in 1..MaxLimit :
        get_news(c, page, limit)

PageSpec == PageInit /\ [][PageNext]_vars

Next ==
    \/ \E c \in Categories : \E s \in Sources(c) : Publish(c, s)
    \/ \E c \in Categories : StartCycle(c)
    \/ \E c \in Categories : StartCycleFails(c)
    \/ \E c \in Categories : Gather(c)
    \/ \E c \in Categories : SkipExisting(c)
    \/ \E c \in Categories : PersistItem(c)
    \/ \E c \in Categories : PersistFails(c)
    \/ \E c \in Categories : ClusterReturn(c)
    \/ \E c \in Categories : ClusterFails(c)
    \/ \E c \in Categories : FetchHangs(c)
    \/ \E c \in Categories : \E s \in Sources(c) : CorruptWatermark(c, s)
    \/ \E c \in Categories : UpdateWatermarks(c)
    \/ \E c \in Categories : UpdateWatermarksFails(c)
    \/ \E c \in Categories : BroadcastItem(c)
    \/ \E c \in Categories : FinishCycle(c)
    \/ clear_all_news
    \/ clear_all_news_fails

Spec == Init /\ [][Next]_vars

(***************************************************************************)
(* The properties.                                                          *)
(***************************************************************************)
\* The events a loop broadcasts for a list of items.
EventsOf(c, items) ==
    [i \in 1..Len(items) |-> [type |-> EventType(c), data |-> items[i]]]

\* The loop of c has reached the end of its cycle: everything is broadcast.
CycleDone(c) == pc[c] = "broadcast" /\ idx[c] > Len(new_items_found[c])

\* C1: in every reachable state each category's item store holds at most
\* one item per link: a candidate whose link is already stored is skipped,
\* when the adapter returns an already ingested item again as well as when
\* the same candidate appears several times in one combined candidate list.
C1_OneItemPerLink ==
    \A c \in Categories : \A i, j \in 1..Len(store[c]) :
        store[c][i].link = store[c][j].link => i = j

\* The loop has just skipped a candidate that appears a second time in the
\* combined candidate list of this poll.
C1_SkippedSecondOccurrence ==
    \E c \in Categories :
        /\ pc[c] = "persist"
        /\ \E j \in 1..(idx[c] - 2) : videos[c][j].link = videos[c][idx[c] - 1].link
        /\ Exists(new_items_found[c], videos[c][idx[c] - 1].link)
        /\ Exists(store[c], videos[c][idx[c] - 1].link)

\* The loop has just skipped a candidate that an earlier poll had stored and
\* that the adapter returned again.
C1_SkippedReturnedAgain ==
    \E c \in Categories :
        /\ pc[c] = "persist"
        /\ idx[c] > 1
        /\ Exists(store[c], videos[c][idx[c] - 1].link)
        /\ ~Exists(new_items_found[c], videos[c][idx[c] - 1].link)
        /\ \A j \in 1..(idx[c] - 2) : videos[c][j].link # videos[c][idx[c] - 1].link

\* C2 (as the code has it): in the first poll cycle of a category loop the
\* items returned by the adapters are stored, recorded in the watermarks
\* and broadcast like in every other cycle; the only thing the first cycle
\* leaves out is the event-timeline processing of the new items.
C2_FirstRunIngests ==
    \A c \in Categories :
        first_run[c] =>
            /\ pc[c] # "cluster"
            /\ offered[c] = {}
            /\ \A t \in threads : t.news_type # c
            /\ CycleDone(c) =>
                 /\ sent[c] = EventsOf(c, new_items_found[c])
                 /\ Range(new_items_found[c]) \subseteq Range(store[c])
                 /\ faults = MaxFaults =>
                      /\ \A j \in 1..Len(videos[c]) : Exists(store[c], videos[c][j].link)
                      /\ \A s \in Sources(c) :
                             Range(LoadIds(wm[c], s)) =
                                 {v.video_id : v \in Range(VideosOfChannel(videos[c], s))}

\* A first cycle that met no fault ends with items stored and broadcast.
C2_FirstCycleBroadcast ==
    \E c \in Categories :
        /\ first_run[c]
        /\ CycleDone(c)
        /\ faults = MaxFaults
        /\ Len(videos[c]) >= 2
        /\ Len(store[c]) >= 2
        /\ Len(sent[c]) >= 2
        /\ wm[c] # <<>>

\* C2 (as stated): in the first poll cycle no item is persisted to the
\* category store and no broadcast event is sent.
C2_FirstRunSilent ==
    \A c \in Categories : first_run[c] => store[c] = <<>> /\ sent[c] = <<>>

\* C3: each category loop starts in FIRST_RUN, leaves it when its first
\* poll cycle completes, whatever the outcome of the cycle, and never
\* returns to it, not even after a clear-all.
C3_FirstRunOnce ==
    /\ \A c \in Categories : first_run[c]
    /\ [][\A c \in Categories :
            LET completes == (pc[c] # "sleep" \/ budget'[c] # budget[c]) /\ pc'[c] = "sleep" IN
            /\ ~first_run[c] => ~first_run'[c]
            /\ completes => ~first_run'[c]
            /\ first_run[c] /\ ~completes => first_run'[c]]_vars

\* A loop in STEADY_STATE after a clear-all has emptied its store and its
\* watermarks: it has broadcast items and holds none.
C3_SteadyAfterClearAll ==
    \E c \in Categories :
        /\ ~first_run[c]
        /\ sent[c] # <<>>
        /\ store[c] = <<>>
        /\ wm[c] = <<>>
        /\ pc[c] = "gather"

\* The id an adapter gives to a listed entry.
IdOf(c, entry) == IF c = "newspaper" THEN generate_article_id(entry.id) ELSE entry.id

\* The ids of a list of videos, in list order.
IdsOf(vs) == [i \in 1..Len(vs) |-> vs[i].video_id]

\* What source s lists during the cycle of c that is under way.
Listed(c, s) == Listing(c, s, published[c][s])

\* The new items source s yielded in this cycle, in the order of the source's
\* listing, the newest first.
Yielded(c, s) ==
    LET kept == Kept(c, results[c][s]) IN
    SelectSeq(kept, LAMBDA v : v \in Range(VideosOfChannel(videos[c], s)))

\* The step of c that writes the watermarks of a poll, every record committed.
WatermarkStep(c) ==
    pc[c] = "persist" /\ pc'[c] = "broadcast" /\ faults' = faults /\ errors' = errors

\* C4: watermark merge law.  After a poll in which source s yielded a
\* non-empty batch of new ids, the stored watermark of s is the new ids in
\* newest-first order, followed by the ids known before, without duplicates
\* (the first occurrence kept), cut to K.
C4_MergeLaw ==
    [][\A c \in Categories : \A s \in Sources(c) :
          WatermarkStep(c) /\ VideosOfChannel(videos[c], s) # <<>> =>
              LoadIds(wm'[c], s) =
                  Take(UniqueIds(IdsOf(Yielded(c, s)) \o LoadIds(wm[c], s)), K)]_vars

\* C5: in every reachable state every watermark record holds at most K ids.
C5_AtMostK ==
    \A c \in Categories : \A s \in DOMAIN wm[c] :
        Len(wm[c][s].last_video_ids.list) <= K

\* A poll that yielded more than K new ids for a source with a watermark has
\* written the record of the source.
C5_MoreThanKNew ==
    \E c \in Categories : \E s \in Sources(c) :
        /\ pc[c] = "broadcast"
        /\ Len(VideosOfChannel(videos[c], s)) > K
        /\ last_ids[c][s] # <<>>
        /\ s \in DOMAIN wm[c]
        /\ Len(wm[c][s].last_video_ids.list) = K

\* The position of the first listed entry whose id is in the id list (one
\* past the end of the listing when there is none).
FirstKnown(c, entries, ids) ==
    LET known == {i \in 1..Len(entries) : IdOf(c, entries[i]) \in Range(ids)} IN
    IF known = {} THEN Len(entries) + 1
    ELSE CHOOSE i \in known : \A j \in known : i <= j

\* The loop of c holds the results of the gather of the cycle under way.
HoldsResults(c) == pc[c] \in {"persist", "cluster", "broadcast"}

\* C6: stopping rule.  An adapter that is given a non-empty id list stops at
\* the first listed entry whose id is in the list: it returns only entries
\* listed before that entry, and never an item whose id is in the list.
C6_StopsAtKnown ==
    \A c \in Categories : \A s \in Sources(c) :
        HoldsResults(c) /\ last_ids[c][s] # <<>> =>
            LET entries == Listed(c, s)
                stop == FirstKnown(c, entries, last_ids[c][s])
                returned == IdsOf(results[c][s].videos) IN
            /\ Range(returned) \cap Range(last_ids[c][s]) = {}
            /\ Range(returned) \subseteq {IdOf(c, entries[i]) : i \in 1..(stop - 1)}

\* An adapter has returned the entries listed before a known entry, and the
\* listing goes on after the known entry with an entry that is not known.
C6_StoppedBeforeUnknown ==
    \E c \in Categories : \E s \in Sources(c) :
        /\ HoldsResults(c)
        /\ last_ids[c][s] # <<>>
        /\ results[c][s].videos # <<>>
        /\ LET entries == Listed(c, s)
               stop == FirstKnown(c, entries, last_ids[c][s]) IN
           \E i \in (stop + 1)..Len(entries) :
               /\ entries[i].id # NoId
               /\ IdOf(c, entries[i]) \notin Range(last_ids[c][s])

\* An entry an adapter does not pass over: it has an id and a title, and is
\* no private or deleted video.
Eligible(entry) ==
    entry.id # NoId /\ entry.title \notin {<<>>, PrivateTitle, DeletedTitle}

\* The ids of the eligible entries of a listing, in listing order.
EligibleIds(c, entries) ==
    LET eligible == SelectSeq(entries, Eligible) IN
    [i \in 1..Len(eligible) |-> IdOf(c, eligible[i])]

\* The step of c in which its gather returns.
GatherStep(c) == pc[c] = "gather" /\ pc'[c] = "persist"

\* The first-run cap for source s of category c: an adapter that is given no
\* id list returns at most FirstRunCap items, the first eligible entries of
\* the listing (or nothing, when its request fails), and after the poll the
\* watermark of s holds exactly the ids of the items it returned.
FirstRunCapped(c, s) ==
    /\ GatherStep(c) /\ last_ids[c][s] = <<>> =>
           LET returned == IdsOf(results'[c][s].videos) IN
           /\ Len(returned) <= FirstRunCap
           /\ returned \in {<<>>, Take(EligibleIds(c, Listed(c, s)), FirstRunCap)}
    /\ WatermarkStep(c) /\ last_ids[c][s] = <<>> /\ results[c][s].videos # <<>> =>
           Range(LoadIds(wm'[c], s)) = Range(IdsOf(results[c][s].videos))

\* C7: first-run cap, for every source of every category.
C7_FirstRunCap ==
    [][\A c \in Categories : \A s \in Sources(c) : FirstRunCapped(c, s)]_vars

\* The first-run cap for the sources of the categories without a filter.
C7_FirstRunCapUnfiltered ==
    [][\A c \in Categories \ {"yemen"} : \A s \in Sources(c) : FirstRunCapped(c, s)]_vars

\* C8: region filter, watermark side.  In the Yemen category every candidate
\* an adapter returns advances the watermark of its source, also the
\* candidates whose title matches no keyword; a source whose candidates all
\* fail the filter still gets its watermark written in that cycle.
C8_FilteredAdvanceWatermark ==
    [][\A s \in Sources("yemen") :
          LET returned == IdsOf(results["yemen"][s].videos) IN
          WatermarkStep("yemen") /\ returned # <<>> /\ Len(returned) <= K =>
              Range(returned) \subseteq Range(LoadIds(wm'["yemen"], s))]_vars

\* C9: region filter, storage side.  Every item of the Yemen store and every
\* item broadcast as a Yemen event has a title with a keyword in it; no
\* other loop broadcasts a Yemen event.
C9_OnlyYemenRelated ==
    /\ \A i \in 1..Len(store["yemen"]) : is_yemen_related(store["yemen"][i].title)
    /\ \A c \in Categories : \A i \in 1..Len(sent[c]) :
           sent[c][i].type = "new_yemen_news" =>
               c = "yemen" /\ is_yemen_related(sent[c][i].data.title)
    /\ \A i \in 1..Len(sent["yemen"]) : sent["yemen"][i].type = "new_yemen_news"

\* A Yemen cycle has stored and broadcast an item while an adapter had also
\* returned a candidate whose title has no keyword.
C9_CandidateFilteredOut ==
    /\ CycleDone("yemen")
    /\ new_items_found["yemen"] # <<>>
    /\ sent["yemen"] # <<>>
    /\ \E s \in Sources("yemen") : \E v \in Range(results["yemen"][s].videos) :
           /\ ~is_yemen_related(v.title)
           /\ ~Exists(store["yemen"], v.link)

\* The results an adapter call for source s may give in the cycle under way.
TaskResults(c, s) ==
    {TaskResult(c, s, Env(outcome, service_ok), last_ids[c][s]) :
         outcome \in OutcomesOf(c), service_ok \in BOOLEAN}

\* The cycle of c under way has met one fault, the one of its gather, and
\* no clear-all.
OnlyFetchFailed(c) ==
    /\ \E s \in Sources(c) : results[c][s].exception
    /\ faults = MaxFaults - 1
    /\ clears = MaxClears

\* C10: source failure isolation.  When the fetch of one source raises in a
\* poll cycle, that source contributes no item to the cycle, and the items
\* of every other source are still persisted, recorded in the watermark of
\* their source and broadcast; in the next cycle the failed source is
\* fetched again.
C10_FailureIsolated ==
    /\ [](\A c \in Categories :
            CycleDone(c) /\ OnlyFetchFailed(c) =>
                \A s \in Sources(c) :
                    LET items == Kept(c, results[c][s]) IN
                    /\ results[c][s].exception => VideosOfChannel(videos[c], s) = <<>>
                    /\ Range(items) \subseteq Range(videos[c])
                    /\ \A v \in Range(items) : Exists(store[c], v.link)
                    /\ items # <<>> => s \in DOMAIN wm[c]
                    /\ items # <<>> /\ Len(items) <= K =>
                           Range(IdsOf(items)) \subseteq Range(LoadIds(wm[c], s))
                    /\ Range(EventsOf(c, new_items_found[c])) \subseteq Range(sent[c]))
    /\ [][\A c \in Categories : \A s \in Sources(c) :
            GatherStep(c) /\ results[c][s].exception =>
                results'[c][s] \in TaskResults(c, s)]_vars

\* A cycle in which the fetch of one source raised has stored, recorded and
\* broadcast the items of another source.
C10_OtherSourceIngested ==
    \E c \in Categories : \E failed, other \in Sources(c) :
        /\ CycleDone(c)
        /\ OnlyFetchFailed(c)
        /\ results[c][failed].exception
        /\ results[c][other].videos # <<>>
        /\ \E i \in 1..Len(new_items_found[c]) : new_items_found[c][i].source = other
        /\ \E i \in 1..Len(store[c]) : store[c][i].source = other
        /\ \E i \in 1..Len(sent[c]) : sent[c][i].data.source = other
        /\ LoadIds(wm[c], other) # <<>>

(***************************************************************************)
(* The loops under fair scheduling.  Each loop is a task of the event loop: *)
(* its sleep ends, a gather whose tasks all return is resumed, the call of  *)
(* the reasoning service returns (requests.post has timeout=30), and the    *)
(* steps between two awaits run to the next await.  Nothing is assumed      *)
(* about the faults, the sources and the clear-all requests.                *)
(***************************************************************************)
LoopStep(c) ==
    \/ StartCycle(c)
    \/ SkipExisting(c)
    \/ PersistItem(c)
    \/ ClusterReturn(c)
    \/ UpdateWatermarks(c)
    \/ BroadcastItem(c)
    \/ FinishCycle(c)

\* Weak fairness of Gather(c), written out: Gather(c) is enabled exactly
\* when pc[c] = "gather" and no coroutine is running, and it leaves "gather";
\* so a gather that can return is not awaited for ever.
GatherResumed(c) == []<>(pc[c] # "gather" \/ turn # "none")

FairSpec ==
    /\ Init /\ [][Next]_vars
    /\ \A c \in Categories : WF_vars(LoopStep(c)) /\ GatherResumed(c)

\* C11: a hung source cannot stall a category: when one source's fetch never
\* returns within a poll cycle, the cycle still completes eventually (the
\* items of the other sources are persisted and broadcast) and the loop goes
\* back to sleep, from where it starts the next cycle.
C11_HungSourceCycleCompletes ==
    \A c \in Categories : (pc[c] = "hung") ~> (pc[c] = "sleep")

\* How often the except clauses have logged <<who, what>>.
Logged(who, what) ==
    Cardinality({i \in 1..Len(errors) : errors[i] = <<who, what>>})

LinksOf(rows) == {rows[i].link : i \in 1..Len(rows)}

\* The step of the loop of c in which the except clause of the pass over
\* one video logs an error.
ItemFailureStep(c) == Logged(c, "item")' > Logged(c, "item")

\* C12: per-item commit: when persisting one candidate of a batch fails, the
\* items persisted before it stay stored, the loop goes on with the
\* remaining candidates of the batch, and only the failed item is absent
\* from storage and from the broadcast.  At the failure nothing stored or
\* found so far changes and the loop moves to the next candidate; at the end
\* of a cycle that no clear-all has touched, the batch has at most as many
\* links out of the store as persistences failed, and every item persisted
\* in the cycle is stored and broadcast.
C12_PerItemCommit ==
    /\ [][\A c \in Categories :
            ItemFailureStep(c) =>
                /\ store' = store
                /\ new_items_found' = new_items_found
                /\ sent' = sent
                /\ pc[c] = "persist" /\ pc'[c] = "persist"
                /\ idx'[c] = idx[c] + 1]_vars
    /\ [](\A c \in Categories :
            CycleDone(c) /\ clears = MaxClears =>
                /\ Cardinality(LinksOf(videos[c]) \ LinksOf(store[c])) <= Logged(c, "item")
                /\ \A i \in 1..Len(new_items_found[c]) :
                       /\ new_items_found[c][i] \in Range(store[c])
                       /\ [type |-> EventType(c), data |-> new_items_found[c][i]]
                              \in Range(sent[c]))

\* A cycle is over in which the persistence of one candidate failed after
\* one candidate of the batch was persisted and before another one was.
C12_FailedBetweenPersisted ==
    \E c \in Categories :
        /\ CycleDone(c) /\ clears = MaxClears
        /\ Logged(c, "item") = 1
        /\ \E j \in 2..(Len(videos[c]) - 1) :
               /\ videos[c][j].link \notin LinksOf(store[c])
               /\ videos[c][j - 1].link \in LinksOf(new_items_found[c])
               /\ videos[c][j + 1].link \in LinksOf(new_items_found[c])
               /\ [type |-> EventType(c), data |-> new_items_found[c][Len(new_items_found[c])]]
                      \in Range(sent[c])

\* C13: the watermark update of a cycle is computed from the candidates of
\* the batch, not from the items that were persisted: after an update that
\* committed every record, the id of every candidate of the batch is in the
\* id list of its source, or that list is full (K ids), whether or not the
\* candidate was persisted.
C13_WatermarkFromFetched ==
    [][\A c \in Categories :
          WatermarkStep(c) =>
              \A i \in 1..Len(videos[c]) :
                  LET ids == LoadIds(wm'[c], videos[c][i].source) IN
                  videos[c][i].video_id \in Range(ids) \/ Len(ids) = K]_vars

\* After the update, the id of a candidate whose persistence failed is in the
\* watermark of its source, and it was not there when the cycle began.
C13_FailedCandidateRecorded ==
    \E c \in Categories :
        /\ pc[c] = "broadcast"
        /\ Logged(c, "item") = 1
        /\ \E i \in 1..Len(videos[c]) :
               /\ videos[c][i].link \notin LinksOf(store[c])
               /\ videos[c][i].video_id \notin Range(last_ids[c][videos[c][i].source])
               /\ videos[c][i].video_id \in Range(LoadIds(wm[c], videos[c][i].source))

\* After the update, the id of a candidate that was skipped because its link
\* was stored already is in the watermark of its source, and it was not
\* there when the cycle began.
C13_SkippedCandidateRecorded ==
    \E c \in Categories :
        /\ pc[c] = "broadcast"
        /\ errors = <<>>
        /\ \E i \in 1..Len(videos[c]) :
               /\ videos[c][i].link \in LinksOf(store[c])
               /\ videos[c][i].link \notin LinksOf(new_items_found[c])
               /\ videos[c][i].video_id \notin Range(last_ids[c][videos[c][i].source])
               /\ videos[c][i].video_id \in Range(LoadIds(wm[c], videos[c][i].source))

\* The step in which the loop of c commits a new row.
PersistStep(c) == Len(store'[c]) = Len(store[c]) + 1

\* The items process_event_timeline has to compare the new row of c with.
OfferedAtPersist(c) ==
    all_news_combined(store', c, store'[c][Len(store'[c])].id)

\* At the end of a steady-state cycle in which nothing failed and that no
\* clear-all has touched, every candidate of the batch is stored and every
\* item persisted in the cycle is stored and broadcast.
SteadyCycleIngests ==
    \A c \in Categories :
        CycleDone(c) /\ ~first_run[c] /\ errors = <<>> /\ clears = MaxClears =>
            /\ LinksOf(videos[c]) \subseteq LinksOf(store[c])
            /\ \A i \in 1..Len(new_items_found[c]) :
                   /\ new_items_found[c][i] \in Range(store[c])
                   /\ [type |-> EventType(c), data |-> new_items_found[c][i]]
                          \in Range(sent[c])

\* C14 (as stated): in STEADY_STATE, for every category (world,
\* region-filtered, newspaper), every candidate that passed the filter and
\* whose link is not yet stored is persisted, has topic clustering run for
\* it, and is broadcast, within the cycle that fetched it.  Clustering is
\* taken to run when the reasoning service is asked, or when there is no
\* other item to compare with.
C14_SteadyStateClustersAll ==
    /\ []SteadyCycleIngests
    /\ [][\A c \in Categories :
            PersistStep(c) /\ ~first_run[c] /\ OfferedAtPersist(c) # {} =>
                pc'[c] = "cluster" /\ offered'[c] = OfferedAtPersist(c)]_vars

\* C14 (amended): in STEADY_STATE every such candidate is persisted and
\* broadcast within the cycle, in every category; the reasoning service is
\* asked for the new items of the world and newspaper categories when there
\* is another world or newspaper item to compare with, and never for an item
\* of the region-filtered (Yemen) category, for which no link is stored.
C14_SteadyStateIngests ==
    /\ []SteadyCycleIngests
    /\ [][\A c \in Categories :
            PersistStep(c) /\ ~first_run[c] =>
                IF c # "yemen" /\ OfferedAtPersist(c) # {}
                THEN pc'[c] = "cluster" /\ offered'[c] = OfferedAtPersist(c)
                ELSE pc'[c] = "persist" /\ threads' = threads /\ offered' = offered]_vars

\* A steady-state cycle is over in which an item was persisted, linked by
\* the reasoning service to another item, and broadcast.
C14_SteadyItemClusteredAndBroadcast ==
    \E c \in Categories :
        /\ CycleDone(c) /\ ~first_run[c] /\ errors = <<>> /\ clears = MaxClears
        /\ new_items_found[c] # <<>>
        /\ \E th \in threads : th.news_type = c /\ th.news_id = new_items_found[c][1].id
        /\ [type |-> EventType(c), data |-> new_items_found[c][1]] \in Range(sent[c])

\* The steps of the loop of c that persist, update the watermarks and
\* broadcast.
IngestionStep(c) ==
    \/ SkipExisting(c)
    \/ PersistItem(c)
    \/ PersistFails(c)
    \/ UpdateWatermarks(c)
    \/ UpdateWatermarksFails(c)
    \/ BroadcastItem(c)
    \/ FinishCycle(c)

\* C15: the ingestion loop never waits for clustering: while the clustering
\* call for an item has not returned, the loop can go on with the remaining
\* items of the batch, the watermark update and the broadcast.
C15_LoopNeverWaitsForClustering ==
    \A c \in Categories : pc[c] = "cluster" => ENABLED IngestionStep(c)

\* The step in which the call of the reasoning service made for the loop of
\* c fails.
ServiceFailureStep(c) == Logged(c, "service")' > Logged(c, "service")

OnlyServiceFailed == \A i \in 1..Len(errors) : errors[i][2] = "service"

\* C16: clustering failure is contained: when the clustering of an item
\* fails, the item stays stored as persisted, no thread link is stored for
\* it, and the loop goes on with the next candidate of the batch; at the end
\* of a cycle in which nothing but the clustering failed (and that no
\* clear-all has touched) every candidate of the batch is stored and every
\* item persisted in the cycle, the one whose clustering failed too, is
\* broadcast.  The call is made in the step that persists the item and in
\* no other step.
C16_ClusterFailureContained ==
    /\ [][\A c \in Categories :
            /\ ServiceFailureStep(c) =>
                  /\ store' = store
                  /\ threads' = threads
                  /\ new_items_found' = new_items_found
                  /\ pc[c] = "cluster" /\ pc'[c] = "persist"
                  /\ idx'[c] = idx[c] + 1
            /\ (pc[c] # "cluster" /\ pc'[c] = "cluster") => PersistStep(c)]_vars
    /\ [](\A c \in Categories :
            CycleDone(c) /\ Logged(c, "service") > 0 /\ OnlyServiceFailed
                /\ clears = MaxClears =>
                /\ LinksOf(videos[c]) \subseteq LinksOf(store[c])
                /\ \A i \in 1..Len(new_items_found[c]) :
                       /\ new_items_found[c][i] \in Range(store[c])
                       /\ [type |-> EventType(c), data |-> new_items_found[c][i]]
                              \in Range(sent[c]))

\* A cycle is over in which the clustering of one of at least two persisted
\* items failed: no thread link is stored, and every item persisted in the
\* cycle is stored and broadcast.
C16_FailedClusteringBroadcast ==
    \E c \in Categories :
        /\ CycleDone(c) /\ Logged(c, "service") = 1 /\ OnlyServiceFailed
        /\ clears = MaxClears /\ links = MaxLinks
        /\ Len(new_items_found[c]) >= 2
        /\ threads = {}
        /\ \A i \in 1..Len(new_items_found[c]) :
               /\ new_items_found[c][i] \in Range(store[c])
               /\ [type |-> EventType(c), data |-> new_items_found[c][i]]
                      \in Range(sent[c])

\* The step in which the call made for the loop of c returns with an answer.
ClusterReturnStep(c) ==
    pc[c] = "cluster" /\ pc'[c] = "persist" /\ ~ServiceFailureStep(c)

\* C17: topic assignment is write-once: the reasoning service is asked for
\* an item only in the step that commits the item's row, with the items
\* other than that row as candidates, so at most once for a stored item; and
\* thread links are added only when that call returns, all of them with the
\* item of the call as main item.  (Links go away through clear-all only.)
C17_ClusteredOnceAtPersistence ==
    [][/\ \A c \in Categories :
             (pc[c] # "cluster" /\ pc'[c] = "cluster") =>
                 /\ PersistStep(c)
                 /\ new_items_found'[c][Len(new_items_found'[c])] = store'[c][Len(store'[c])]
                 /\ offered'[c] = OfferedAtPersist(c)
       /\ threads' # threads =>
             \/ threads' = {}
             \/ /\ threads \subseteq threads'
                /\ \E c \in Categories :
                      /\ ClusterReturnStep(c)
                      /\ new_items_found' = new_items_found
                      /\ \A th \in threads' \ threads :
                             /\ th.news_type = c
                             /\ th.news_id = new_items_found[c][Len(new_items_found[c])].id]_vars

\* A cycle is over in which an item was persisted and linked, and a later
\* candidate of the same batch with the same link was skipped: the item has
\* the links of its one call.
C17_LinkedItemSkippedLater ==
    \E c \in Categories :
        /\ CycleDone(c) /\ clears = MaxClears
        /\ \E th \in threads, i, j \in 1..Len(videos[c]) :
               /\ i < j
               /\ videos[c][i].link = videos[c][j].link
               /\ th.news_type = c
               /\ \E r \in 1..Len(store[c]) :
                      store[c][r].id = th.news_id /\ store[c][r].link = videos[c][i].link

\* The step in which the loop of c hands a message to manager.broadcast.
BroadcastStep(c) == Len(sent'[c]) = Len(sent[c]) + 1

C19_PersistedBroadcastOnce ==
    /\ [][\A c \in Categories :
            /\ new_items_found'[c] # new_items_found[c] =>
                  \/ new_items_found'[c] = <<>> /\ pc[c] = "sleep"
                  \/ /\ PersistStep(c)
                     /\ new_items_found'[c] =
                            Append(new_items_found[c], store'[c][Len(store'[c])])
            /\ sent'[c] # sent[c] =>
                  /\ pc[c] = "broadcast" /\ idx[c] <= Len(new_items_found[c])
                  /\ sent'[c] = Append(sent[c], [type |-> EventType(c),
                                                 data |-> new_items_found[c][idx[c]]])
                  /\ idx'[c] = idx[c] + 1
                  /\ new_items_found'[c] = new_items_found[c]
            /\ (pc[c] # "broadcast" /\ pc'[c] = "broadcast") => idx'[c] = 1
            /\ (pc[c] = "broadcast" /\ pc'[c] # "broadcast") => CycleDone(c)]_vars
    /\ [](\A c \in Categories :
            CycleDone(c) =>
                /\ Len(sent[c]) >= Len(new_items_found[c])
                /\ SubSeq(sent[c], Len(sent[c]) - Len(new_items_found[c]) + 1, Len(sent[c]))
                       = EventsOf(c, new_items_found[c]))

\* A cycle is over whose batch held two candidates that were persisted, one
\* that was skipped as already stored and one whose persistence failed: the
\* events sent last are those of the persisted items.
C19_OnlyPersistedBroadcast ==
    \E c \in Categories :
        /\ CycleDone(c) /\ clears = MaxClears
        /\ Len(new_items_found[c]) >= 2
        /\ Logged(c, "item") = 1
        /\ \E i \in 1..Len(videos[c]) : videos[c][i].link \notin LinksOf(store[c])
        /\ \E i, j \in 1..Len(videos[c]) : i < j /\ videos[c][i].link = videos[c][j].link
        /\ SubSeq(sent[c], Len(sent[c]) - Len(new_items_found[c]) + 1, Len(sent[c]))
               = EventsOf(c, new_items_found[c])

\* The sources of c whose stored id list is one of the given texts.
BadSources(c, texts) ==
    {s \in Sources(c) : s \in DOMAIN wm[c] /\ wm[c][s].last_video_ids \in texts}

\* A watermark with one of the texts is treated as no watermark: the cycle that
\* starts calls the adapter of the source without id list, and the update of
\* a cycle in which no fault occurs is logged as no error, writes the record
\* of every source of the batch, and gives the source of the bad text the
\* ids of its new candidates only.
TreatedAsNoWatermark(texts) ==
    \A c \in Categories :
        /\ (pc[c] = "sleep" /\ pc'[c] = "gather") =>
               \A s \in BadSources(c, texts) : last_ids'[c][s] = <<>>
        /\ (pc[c] = "persist" /\ pc'[c] = "broadcast" /\ faults' = faults
              /\ BadSources(c, texts) # {}) =>
               /\ errors' = errors
               /\ \A i \in 1..Len(videos[c]) :
                      LET ids == LoadIds(wm'[c], videos[c][i].source) IN
                      videos[c][i].video_id \in Range(ids) \/ Len(ids) = K
               /\ \A s \in BadSources(c, texts) :
                      VideosOfChannel(videos[c], s) # <<>> =>
                          wm'[c][s].last_video_ids =
                              json_dumps(FinalIds(VideosOfChannel(videos[c], s), <<>>))

\* C20: a corrupt or unparseable stored watermark is treated as no
\* watermark: the source is fetched in first-run mode, the cycle does not
\* fail and the other sources are unaffected, and the next watermark update
\* of that source replaces the corrupt value with the new ids only.
C20_CorruptWatermarkIgnored ==
    [][TreatedAsNoWatermark({CorruptText, StringText})]_vars

\* The same for a text that json.loads rejects.
C20_UnparseableWatermarkIgnored == [][TreatedAsNoWatermark({CorruptText})]_vars

\* The record of a source whose text did not parse has been replaced by the
\* ids of the candidates of the cycle.
C20_UnparseableReplaced ==
    \E c \in Categories : \E s \in Sources(c) :
        /\ pc[c] = "broadcast"
        /\ faults = MaxFaults - 1 /\ errors = <<>> /\ clears = MaxClears
        /\ last_ids[c][s] = <<>>
        /\ s \in DOMAIN wm[c]
        /\ VideosOfChannel(videos[c], s) # <<>>
        /\ first_run[c] = FALSE
        /\ wm[c][s].last_video_ids = json_dumps(FinalIds(VideosOfChannel(videos[c], s), <<>>))
        /\ \E i \in 1..Len(store[c]) :
               /\ store[c][i].source = s
               /\ store[c][i].video_id \notin Range(wm[c][s].last_video_ids.list)

\* Where the loop of c is in its cycle, as a pair that gets smaller with
\* every step of the cycle: the part of the body (gather, batch, broadcast,
\* sleep) and what is left of the part.
Position(c) ==
    IF pc[c] \in {"gather", "hung"} THEN <<3, 0>>
    ELSE IF pc[c] = "persist" THEN <<2, 2 * (Len(videos[c]) + 1 - idx[c]) + 1>>
    ELSE IF pc[c] = "cluster" THEN <<2, 2 * (Len(videos[c]) + 1 - idx[c])>>
    ELSE IF pc[c] = "broadcast" THEN <<1, Len(new_items_found[c]) + 1 - idx[c]>>
    ELSE <<0, 0>>

Closer(p, q) == p[1] < q[1] \/ (p[1] = q[1] /\ p[2] < q[2])

\* A step in which something fails in the cycle of c: an except clause of
\* the loop or of the clustering logs an error, or a task of the gather
\* returns an exception or nothing.
FailureStep(c) ==
    \/ \E what \in {"item", "cycle", "service"} : Logged(c, what)' > Logged(c, what)
    \/ pc[c] = "gather" /\ pc'[c] = "persist" /\ faults' < faults

\* The steps of the body of the loop of c that need nothing from outside:
\* a pass of "for video in videos", a pass of "for item in new_items_found",
\* the end of the body.  (After the last video the loop is at the watermark
\* update, which waits for nothing.)
BodyStep(c) ==
    \/ SkipExisting(c)
    \/ PersistItem(c)
    \/ BroadcastItem(c)
    \/ FinishCycle(c)

\* C21: the poll cycle is the failure-containment boundary: after a failure
\* of a fetch, a persistence, a watermark update or a clustering call the
\* loop is still in its cycle or asleep; every step of the loop but the start
\* of a cycle brings it closer to the sleep; inside the batch and the
\* broadcast the loop can always take its next step; a clustering call that
\* returns and a sleep that ends are taken up; so every cycle is closed and
\* the next one started, as long as no fetch hangs.
C21_FailureContained ==
    /\ [](\A c \in Categories :
            /\ pc[c] \in {"sleep", "gather", "hung", "persist", "cluster", "broadcast"}
            /\ pc[c] \in {"persist", "broadcast"} => turn = c
            /\ pc[c] = "persist" /\ idx[c] <= Len(videos[c]) => ENABLED BodyStep(c)
            /\ pc[c] = "persist" => idx[c] \in 1..(Len(videos[c]) + 1)
            /\ pc[c] = "broadcast" => ENABLED BodyStep(c)
            /\ pc[c] = "cluster" /\ turn = "none" => ENABLED ClusterReturn(c)
            /\ pc[c] = "sleep" /\ turn = "none" /\ budget[c] > 0 => ENABLED StartCycle(c))
    /\ [][\A c \in Categories :
            /\ FailureStep(c) => pc'[c] \in {"sleep", "persist", "broadcast"}
            /\ \/ Position(c)' = Position(c)
               \/ Closer(Position(c)', Position(c))
               \/ pc[c] = "sleep" /\ pc'[c] = "gather"]_vars

\* The except clause of the loop has logged the failure of a cycle, and the
\* loop has closed that cycle, slept, and is broadcasting what it persisted
\* in a later cycle.
C21_NextCycleAfterFailure ==
    \E c \in Categories :
        /\ Logged(c, "cycle") = 1
        /\ ~first_run[c]
        /\ pc[c] = "broadcast"
        /\ new_items_found[c] # <<>>
        /\ Len(sent[c]) > Len(new_items_found[c])

\* The step of POST /api/clear-all that commits.
ClearAllStep == clears' < clears /\ errors' = errors

\* C22: stored items are immutable: in every step other than a clear-all
\* every stored row stays where it is with its id, title, link, publish time
\* and source; the return of a clustering call changes neither the item
\* tables nor the watermarks and removes no thread link; rows disappear only
\* in a clear-all.
C22_StoredItemsImmutable ==
    [][/\ ~ClearAllStep =>
            \A c \in Categories :
                /\ Len(store'[c]) >= Len(store[c])
                /\ \A i \in 1..Len(store[c]) : store'[c][i] = store[c][i]
       /\ \A c \in Categories :
            pc[c] = "cluster" /\ pc'[c] = "persist" =>
                store' = store /\ wm' = wm /\ threads \subseteq threads']_vars

\* An item persisted in an earlier cycle is the related item of a thread
\* link stored in this cycle, and its row is the row that was made from the
\* fetched video.
C22_LinkedItemUnchanged ==
    \E c \in Categories : \E i \in 1..Len(store[c]) :
        /\ store[c][i] \notin Range(new_items_found[c])
        /\ \E t \in threads :
               t.related_news_type = c /\ t.related_news_id = store[c][i].id
        /\ \E s \in Sources(c) : \E n \in 1..Len(Listing(c, s, published[c][s])) :
               /\ store[c][i].source = s
               /\ store[c][i].video_id = IdOf(c, Listing(c, s, published[c][s])[n])
               /\ store[c][i].title \in
                    {translate_to_arabic(Listing(c, s, published[c][s])[n].title, ok) :
                        ok \in BOOLEAN}

\* The items of the thread of the item a timeline was read for: the stored
\* items that a link joins to it, in either direction.
ThreadItems(resp) ==
    UNION {{[id |-> store[c][i].id, title |-> store[c][i].title,
             link |-> store[c][i].link, published |-> store[c][i].published,
             source |-> store[c][i].source, news_type |-> c]
               : i \in {k \in 1..Len(store[c]) :
                          \E t \in threads :
                              \/ /\ t.news_type = resp.news_type
                                 /\ t.news_id = resp.current_news_id
                                 /\ t.related_news_type = c
                                 /\ t.related_news_id = store[c][k].id
                              \/ /\ t.related_news_type = resp.news_type
                                 /\ t.related_news_id = resp.current_news_id
                                 /\ t.news_type = c
                                 /\ t.news_id = store[c][k].id}}
           : c \in Categories}

\* x has less than the threshold in common with every other item of the
\* thread, and less than the threshold on average.
LowInThread(x, thread) ==
    /\ \A y \in thread \ {x} : Similarity(x, y) < BestThreshold
    /\ \/ thread = {x}
       \/ SumOf([y \in thread \ {x} |-> Similarity(x, y)], thread \ {x})
             < AverageThreshold * (Cardinality(thread) - 1)

YemenItem(news_type, news_id) ==
    news_type = "yemen" /\ \E i \in 1..Len(store["yemen"]) : store["yemen"][i].id = news_id

\* The Yemen loop never awaits the reasoning service, and no step of it
\* changes the links, or the tables of the other categories.
YemenLoopClustersNothing ==
    (turn = "yemen" \/ pc["yemen"] # pc'["yemen"]) =>
        /\ pc'["yemen"] # "cluster"
        /\ threads' = threads
        /\ \A c \in Categories \ {"yemen"} : store'[c] = store[c] /\ wm'[c] = wm[c]

\* C24: Yemen news is excluded from event threads: whatever the reasoning
\* service answers, no stored thread link has a Yemen item as its main item
\* or as its related item, and clustering invoked for a Yemen item changes
\* no stored state.
C24_YemenExcludedFromThreads ==
    /\ [](\A t \in threads :
            /\ ~YemenItem(t.news_type, t.news_id)
            /\ ~YemenItem(t.related_news_type, t.related_news_id))
    /\ [][YemenLoopClustersNothing]_vars

\* The part of C24 about the main item and the Yemen loop.
C24_YemenNeverMainItem ==
    /\ [](\A t \in threads : t.news_type # "yemen")
    /\ [][YemenLoopClustersNothing]_vars

\* A Yemen item was persisted in a cycle that is not the first of the Yemen
\* loop, while world items were stored: the call of process_event_timeline
\* for it has returned and no link is stored.
C24_YemenItemNotClustered ==
    /\ ~first_run["yemen"]
    /\ pc["yemen"] = "persist"
    /\ new_items_found["yemen"] # <<>>
    /\ store["world"] # <<>>
    /\ threads = {}

\* A step of POST /api/clear-all: one that commits, or one that fails.
ClearAllCalled == clears' < clears

\* C25: the administrative clear-all is all-or-nothing: when it succeeds,
\* the three item tables, the three watermark tables and the thread links
\* are all empty at the moment it commits; when it fails, none of them is
\* changed.
C25_ClearAllAllOrNothing ==
    [][ClearAllCalled =>
          IF Logged("admin", "clear")' > Logged("admin", "clear")
          THEN store' = store /\ wm' = wm /\ threads' = threads
          ELSE /\ \A c \in Categories : store'[c] = <<>> /\ wm'[c] = <<>>
               /\ threads' = {}]_vars

\* A clear-all has committed after items were broadcast and a link was
\* stored: every table is empty.
C25_ClearedAfterLinks ==
    /\ clears < MaxClears
    /\ Logged("admin", "clear") = 0
    /\ links < MaxLinks
    /\ \E c \in Categories : sent[c] # <<>>
    /\ \A c \in Categories : store[c] = <<>> /\ wm[c] = <<>>
    /\ threads = {}

\* After the poll of c that is ending, in which no failure was logged and
\* before which no clear-all was served, the newest id that source s lists is
\* in the watermark of s, if the adapter of s returned a candidate.
NewestListedKnown(c, s) ==
    /\ CycleDone(c)
    /\ errors = <<>>
    /\ clears = MaxClears
    /\ ~results[c][s].exception
    /\ results[c][s].videos # <<>>
    => EligibleIds(c, Listed(c, s))[1] \in Range(LoadIds(wm[c], s))

\* C26: quiescence: when the listing of a source does not change between
\* two polls, the second poll returns no candidate for the source, however
\* many new items the first poll yielded and in every category: after every
\* poll that yielded new items the newest id of the listing is in the
\* watermark of the source.
C26_Quiescence ==
    \A c \in Categories : \A s \in Sources(c) : NewestListedKnown(c, s)

\* The same for the categories without a filter.
C26_QuiescenceUnfiltered ==
    \A c \in Categories \ {"yemen"} : \A s \in Sources(c) : NewestListedKnown(c, s)

\* The same for the polls in which the adapter returned at most K candidates.
C26_QuiescenceUpToK ==
    \A c \in Categories \ {"yemen"} : \A s \in Sources(c) :
        Len(results[c][s].videos) <= K => NewestListedKnown(c, s)

(***************************************************************************)
(* C27.  The timestamp of a watermark after an update.                      *)
(***************************************************************************)
\* The latest and the earliest publish time among the videos of one channel.
LatestPublished(channel_videos) ==
    CHOOSE p \in {channel_videos[i].published : i \in 1..Len(channel_videos)} :
        \A i \in 1..Len(channel_videos) : channel_videos[i].published <= p

EarliestPublished(channel_videos) ==
    CHOOSE p \in {channel_videos[i].published : i \in 1..Len(channel_videos)} :
        \A i \in 1..Len(channel_videos) : channel_videos[i].published >= p

\* The watermark update of the cycle of category c has written the record of
\* source s: the loop is past the update, which did not fail, and the batch
\* held videos of s.
WatermarkUpdated(c, s) ==
    /\ pc[c] = "broadcast"
    /\ errors = <<>>
    /\ VideosOfChannel(videos[c], s) # <<>>
    /\ s \in DOMAIN wm[c]

\* C27: after a watermark update for source S, the timestamp of the
\* watermark is the latest publish time among the items of S in the batch of
\* that cycle.
C27_TimestampIsLatest ==
    \A c \in Categories : \A s \in Sources(c) :
        WatermarkUpdated(c, s) =>
            wm[c][s].last_video_published =
                LatestPublished(VideosOfChannel(videos[c], s))

\* What the code writes: the publish time of the last video of the batch,
\* which is sorted newest first, that is the earliest one.
C27_TimestampIsEarliest ==
    \A c \in Categories : \A s \in Sources(c) :
        WatermarkUpdated(c, s) =>
            wm[c][s].last_video_published =
                EarliestPublished(VideosOfChannel(videos[c], s))

\* An update after which the two differ.
C27_TimestampOfOldest ==
    \E c \in Categories : \E s \in Sources(c) :
        /\ WatermarkUpdated(c, s)
        /\ wm[c][s].last_video_published <
               LatestPublished(VideosOfChannel(videos[c], s))

(***************************************************************************)
(* C28.  Which steps change the watermark record of a source.               *)
(***************************************************************************)
NoRecord == [last_video_ids |-> CorruptText, last_video_published |-> -1]

\* The watermark record of source s in a table, NoRecord when it has none.
RecordOf(table, s) == IF s \in DOMAIN table THEN table[s] ELSE NoRecord

\* A step of the poll cycle of category c: the loop is not asleep.
InCycle(c) == pc[c] # "sleep"

\* C28: a step of a poll cycle changes or creates the watermark record of
\* source S only if it is the watermark update of a cycle in which the
\* adapter of S returned at least one candidate (and did not fail); and a
\* record is removed only by clear-all.
C28_WatermarkChangedOnlyByOwnCandidates ==
    [][\A c \in Categories : \A s \in Sources(c) :
          /\ s \in DOMAIN wm[c] /\ s \notin DOMAIN wm'[c] => ClearAllCalled
          /\ InCycle(c) /\ ~ClearAllCalled /\ RecordOf(wm'[c], s) # RecordOf(wm[c], s) =>
                /\ pc[c] = "persist" /\ pc'[c] = "broadcast"
                /\ ~results[c][s].exception
                /\ results[c][s].videos # <<>>]_vars

\* A later cycle is past its watermark update: one source returned
\* candidates, another source of the category that has a record returned
\* none.
C28_OtherSourceUntouched ==
    \E c \in Categories : \E s, other \in Sources(c) :
        /\ pc[c] = "broadcast"
        /\ ~first_run[c]
        /\ errors = <<>>
        /\ results[c][s].videos # <<>>
        /\ s \in DOMAIN wm[c]
        /\ results[c][other].videos = <<>>
        /\ other \in DOMAIN wm[c]

(***************************************************************************)
(* C29.  The order of the batch and of its persistence.                     *)
(***************************************************************************)
\* A sequence of items in order of non-increasing publish time.
NewestFirst(items) ==
    \A i, j \in 1..Len(items) : i < j => items[i].published >= items[j].published

TimesSent(l, message) ==
    Cardinality({k \in 1..Len(received[l]) : received[l][k] = message})

\* The last call of manager.broadcast has ended.
BroadcastEnded == ~sending.busy /\ sending.start # <<>>

\* C30: every listener that is in the registry from the start to the end of
\* a broadcast is sent the message exactly once (unless its own send
\* raised), whatever connects and disconnects happen between the sends.
C30_SteadyListenersSentOnce ==
    BroadcastEnded =>
        \A l \in sending.steady \ sending.failed : TimesSent(l, sending.message) = 1

\* No listener is sent the message of a broadcast more than once, and the
\* listeners that stayed are all sent it when none of the listeners that
\* were connected at the start has left during the broadcast.
C30_SentOnceUnlessOneLeft ==
    /\ \A l \in Range(Listeners) :
         sending.start # <<>> => TimesSent(l, sending.message) <= 1
    /\ BroadcastEnded /\ sending.steady = Range(sending.start) =>
         \A l \in sending.steady \ sending.failed : TimesSent(l, sending.message) = 1

\* A broadcast has ended that passed over a listener who stayed connected
\* all the while, after another listener left.
C30_ListenerSkipped ==
    /\ BroadcastEnded
    /\ \E l \in sending.steady \ sending.failed : TimesSent(l, sending.message) = 0
    /\ sending.steady # Range(sending.start)

(***************************************************************************)
(* C31.  The registry and the handlers that have ended.                     *)
(***************************************************************************)
\* C31: the list of active connections never holds a connection whose
\* handler has ended, whether it ended by a disconnect of the client, by an
\* error or by a ping that could not be sent.
C31_EndedHandlerNotRegistered ==
    \A l \in Range(Listeners) : handler[l] = "ended" => l \notin Range(active_connections)

\* A handler that ends without a failed ping (by a disconnect of the client)
\* has removed its connection from the list.
C31_DisconnectedNotRegistered ==
    [][\A l \in Range(Listeners) :
          handler[l] = "open" /\ handler'[l] = "ended" /\ faults' = faults
              => l \notin Range(active_connections')]_vars

\* A broadcast sends to a connection whose handler has ended.
C31_SendToEndedHandler ==
    /\ sending.busy
    /\ handler[sending.to] = "ended"
    /\ sending.to \in Range(active_connections)

(***************************************************************************)
(* C32.  Thread links and the items they name.                              *)
(***************************************************************************)
\* The item table of a type holds a row with this id.
Stored(rtype, id) ==
    \E i \in 1..Len(store[TableOf(rtype)]) : store[TableOf(rtype)][i].id = id

\* C32: every stored thread link names a main item and a related item that
\* both exist in the item tables of their types.
C32_LinksNameStoredItems ==
    \A t \in threads :
        /\ Stored(t.news_type, t.news_id)
        /\ Stored(t.related_news_type, t.related_news_id)

\* While no clear-all is served, every stored link names stored items.
C32_LinksNameStoredItemsUntilCleared ==
    clears = MaxClears => C32_LinksNameStoredItems

\* A link is stored whose items are in no table: the tables were cleared
\* while the call to the reasoning service was awaited.
C32_LinkOfClearedItems ==
    \E t \in threads :
        /\ store[TableOf(t.news_type)] = <<>>
        /\ store[TableOf(t.related_news_type)] = <<>>
        /\ clears < MaxClears

(***************************************************************************)
(* C33.  One link per pair of items.                                        *)
(***************************************************************************)
\* C33: the table of thread links holds at most one row per (main item id,
\* main item type, related item id, related item type), for any response.
C33_OneRowPerLink ==
    \A r, q \in threads : LinkOf(r) = LinkOf(q) => r = q

\* No call adds a row for a link that was in the table when the call began.
C33_NoRowForCommittedLink ==
    [][\A r \in threads' \ threads : \A q \in threads : LinkOf(q) # LinkOf(r)]_vars

\* Two rows hold the same link.
C33_LinkStoredTwice ==
    \E r, q \in threads : r.id # q.id /\ LinkOf(r) = LinkOf(q)

(***************************************************************************)
(* C34.  Links of an item to itself.                                        *)
(***************************************************************************)
\* C34: no stored link has the same item as main and as related item, for
\* any response of the reasoning service.
C34_NoSelfLink ==
    \A r \in threads :
        ~(r.news_id = r.related_news_id /\ r.news_type = r.related_news_type)

\* The item of a call is not among the items the call offers to the service.
C34_OwnItemNotOffered ==
    \A c \in Categories :
        pc[c] = "cluster" =>
            <<c, new_items_found[c][Len(new_items_found[c])].id>> \notin offered[c]

\* A link of a stored item to itself is stored.
C34_SelfLinkStored ==
    \E r \in threads :
        /\ r.news_id = r.related_news_id /\ r.news_type = r.related_news_type
        /\ Stored(r.news_type, r.news_id)

(***************************************************************************)
(* C35, C36.  The timelines of two and of three items.                      *)
(***************************************************************************)
\* The stored items, as <<category, id>>.
StoredItems ==
    UNION {{<<c, store[c][i].id>> : i \in 1..Len(store[c])} : c \in Categories}

\* Item b is in the timeline that get_event_timeline returns for item a:
\* one of the related (id, type) pairs collected for a is looked up in the
\* table of b and finds the row of b.
InTimeline(a, b) ==
    \E x \in related_items(threads, a[1], a[2]) :
        /\ TableOf(x[2]) = b[1]
        /\ x[1] = b[2]
        /\ RelatedNews(store, x[1], x[2]) # {}

\* C35: for any two stored items A and B, B is in the timeline returned for
\* A exactly when A is in the timeline returned for B.
C35_TimelineSymmetric ==
    \A a, b \in StoredItems : InTimeline(a, b) <=> InTimeline(b, a)

\* The timelines are symmetric while every link has a category as the type
\* of its related item.
C35_SymmetricForCategoryTypes ==
    (\A r \in threads : r.related_news_type \in Categories) => C35_TimelineSymmetric

\* A link whose related type is no category: the timeline of its main item
\* shows a newspaper item whose own timeline does not show the main item.
C35_OneWayLink ==
    \E a, b \in StoredItems :
        /\ a # b
        /\ InTimeline(a, b)
        /\ ~InTimeline(b, a)
        /\ \E r \in threads : r.related_news_type = OtherType

\* C36: for any three stored items X, Y, Z, pairwise distinct, if Y is in
\* the timeline returned for X and Z in the timeline returned for Y, then Z
\* is in the timeline returned for X.
C36_TimelineTransitive ==
    \A x, y, z \in StoredItems :
        /\ x # y /\ y # z /\ x # z
        /\ InTimeline(x, y)
        /\ InTimeline(y, z)
        => InTimeline(x, z)

\* The timeline of an item holds the items that share a link with it, and
\* no others.
C36_TimelineIsDirectLinks ==
    \A a, b \in StoredItems :
        InTimeline(a, b) <=>
            \E r \in threads :
                \/ /\ r.news_type = a[1] /\ r.news_id = a[2]
                   /\ TableOf(r.related_news_type) = b[1] /\ r.related_news_id = b[2]
                \/ /\ r.related_news_type = a[1] /\ r.related_news_id = a[2]
                   /\ r.news_type = b[1] /\ r.news_id = b[2]

\* Two links with categories as types join X with Y and Y with Z, and Z is
\* not in the timeline of X.
C36_ChainNotClosed ==
    \E x, y, z \in StoredItems :
        /\ x # y /\ y # z /\ x # z
        /\ InTimeline(x, y) /\ InTimeline(y, x)
        /\ InTimeline(y, z) /\ InTimeline(z, y)
        /\ ~InTimeline(x, z)
        /\ \A r \in threads : r.related_news_type \in Categories

(***************************************************************************)
(* C37.  The tables of a category and the loops of the others.              *)
(***************************************************************************)
\* The item table or the watermark table of category d differs after the
\* step.
TablesChange(d) == store'[d] # store[d] \/ wm'[d] # wm[d]

\* C37: a step changes the item table or the watermark table of a category
\* only when it is a step of that category's own loop, in the persist part
\* of its cycle (or no step of a loop at all: a clear-all, or a write to a
\* watermark record from outside while the loop sleeps); a step that adds an
\* item adds it to the table of the loop that runs.
C37_CategoryOwnership ==
    [][\A d \in Categories :
          /\ TablesChange(d) /\ turn # "none" => turn = d /\ pc[d] = "persist"
          /\ TablesChange(d) /\ turn = "none" =>
                \/ ClearAllCalled
                \/ pc[d] = "sleep" /\ pc' = pc /\ store' = store /\ faults' < faults
          /\ PersistStep(d) => turn = d /\ \A e \in Categories \ {d} : store'[e] = store[e]]_vars

\* The loop of one category persists an item while the loop of another is
\* in its cycle, waiting for the reasoning service, with items and
\* watermarks of its own.
C37_LoopsInterleaved ==
    \E c, d \in Categories :
        /\ c # d
        /\ pc[c] = "cluster"
        /\ store[c] # <<>> /\ wm[c] # <<>>
        /\ pc[d] = "persist" /\ turn = d
        /\ new_items_found[d] # <<>>

(***************************************************************************)
(* C38.  The paginated read.                                                *)
(***************************************************************************)
\* The rank of a row in the order newest-ingested-first: one more than the
\* number of rows of its table that were added later, or at the same time
\* with a larger id.
RankOf(rows, row) ==
    1 + Cardinality({j \in 1..Len(rows) :
            \/ rows[j].created_at > row.created_at
            \/ rows[j].created_at = row.created_at /\ rows[j].id > row.id})

\* The items that a read of page p with this limit returns from the tables
\* as they are.
PageOf(c, page, limit) ==
    OffsetLimit(OrderNewestAdded(store[c]), Skip(page, limit), limit)

\* The pages of a table for a limit: as many as hold all the rows.
PagesOf(c, limit) == 1..(Len(store[c]) + 1)

\* C38: the read of page p with limit l returns the stored items of ranks
\* (p-1)*l+1 .. p*l of the order newest-ingested-first (ingestion time
\* descending, id descending), as many as there are, and the store's count
\* as total; read from the same tables, the pages of a limit hold every
\* stored item exactly once.
C38_PageHoldsItsRanks ==
    response.handler = "news" =>
        LET rows == store[response.category]
            p == response.page
            l == response.limit
            left == Len(rows) - (p - 1) * l IN
        /\ response.total = Len(rows)
        /\ Len(response.items) = IF left <= 0 THEN 0 ELSE IF left < l THEN left ELSE l
        /\ \A j \in 1..Len(response.items) :
             /\ response.items[j] \in Range(rows)
             /\ RankOf(rows, response.items[j]) = (p - 1) * l + j
        /\ \A i \in 1..Len(rows) :
             Cardinality({<<q, j>> \in PagesOf(response.category, l) \X (1..l) :
                            /\ j <= Len(PageOf(response.category, q, l))
                            /\ PageOf(response.category, q, l)[j] = rows[i]}) = 1

\* The second page of a limit of two is read from a table of three rows,
\* two of them added at the same time: it holds the one row that was added
\* first.
C38_SecondPageRead ==
    /\ response.handler = "news"
    /\ response.page = 2 /\ response.limit = 2
    /\ response.total = 3
    /\ Len(response.items) = 1
    /\ \E i, j \in 1..3 :
         /\ i # j
         /\ store[response.category][i].created_at = store[response.category][j].created_at
    /\ \A i \in 1..3 :
         response.items[1].created_at <= store[response.category][i].created_at
    /\ response.items[1].id = 1

=============================================================================
